---- MODULE Spec2Model ----
(***************************************************************************)
(* A model of the CalDAV server of myCalDAV-Server: the SQLite-backed      *)
(* calendar/event store (services.rs), the CalDAV handlers (handlers.rs),  *)
(* the authentication middleware (middleware.rs), the routing table        *)
(* (lib.rs) and the error mapping (error.rs).                              *)
(*                                                                         *)
(* Text (paths, header values, iCalendar and XML bodies) is a sequence of  *)
(* tokens, each token a string: a single character of data ("a", ";",      *)
(* "2"), a separator ("/", ":"), a keyword of a format string              *)
(* ("SUMMARY", "<d:href>") or a whole UUID in its canonical string form.   *)
(* A table of the database is the sequence of its rows in insertion        *)
(* (rowid) order.  Option<T> is a sequence of length 0 (None) or 1 (Some). *)
(***************************************************************************)
EXTENDS Integers, Sequences, FiniteSets, TLC

\* Bounds of the model.
MaxCalendars == 2
MaxEvents == 2
MaxShares == 2

-----------------------------------------------------------------------------
(* Text helpers: the str methods the code uses. *)

None == <<>>

Some(x) == <<x>>

\* str::starts_with
StartsWith(s, p) ==
  /\ Len(s) >= Len(p)
  /\ SubSeq(s, 1, Len(p)) = p

\* str::ends_with
EndsWith(s, p) ==
  /\ Len(s) >= Len(p)
  /\ SubSeq(s, Len(s) - Len(p) + 1, Len(s)) = p

\* str::contains for a one-token pattern
Contains(s, t) == \E i \in 1..Len(s) : s[i] = t

\* str::trim_start_matches(c): drops every leading c
RECURSIVE TrimStartMatches(_, _)
TrimStartMatches(s, c) ==
  IF Len(s) > 0 /\ s[1] = c THEN TrimStartMatches(Tail(s), c) ELSE s

\* str::trim_end_matches(c): drops every trailing c
RECURSIVE TrimEndMatches(_, _)
TrimEndMatches(s, c) ==
  IF Len(s) > 0 /\ s[Len(s)] = c
  THEN TrimEndMatches(SubSeq(s, 1, Len(s) - 1), c)
  ELSE s

\* index of the first c in s, 0 when there is none
FirstIndex(s, c) ==
  IF Contains(s, c) THEN CHOOSE i \in 1..Len(s) : s[i] = c /\ \A j \in 1..(i - 1) : s[j] # c
  ELSE 0

\* str::split(c).collect(): the pieces between the separators (one piece,
\* possibly empty, when there is no separator)
RECURSIVE Split(_, _)
Split(s, c) ==
  LET i == FirstIndex(s, c)
  IN IF i = 0 THEN <<s>>
     ELSE <<SubSeq(s, 1, i - 1)>> \o Split(SubSeq(s, i + 1, Len(s)), c)

\* concatenation of a sequence of texts
RECURSIVE Concat(_)
Concat(ss) == IF Len(ss) = 0 THEN <<>> ELSE Head(ss) \o Concat(Tail(ss))

-----------------------------------------------------------------------------
(* Identifiers. *)

\* The tokens of the model that are not the canonical form of a UUID.
NonUuidTokens ==
  {"/", ":", ";", ",", ".ics", ".", "calendars", "new", "dav", "principals",
   ".well-known", "caldav", "api", "web", "health", "x", ""}

\* Uuid::parse_str: Some(id) for a text that is one UUID token, else None
\* (the caller's `?` turns None into AppError::UuidError).
Uuid_parse_str(s) ==
  IF Len(s) = 1 /\ s[1] \notin NonUuidTokens THEN Some(s[1]) ELSE None

\* Uuid::new_v4() in create_calendar: an identifier never handed out before.
CalUuid(n) == "c" \o ToString(n)

\* Uuid::new_v4() in create_share: an identifier never handed out before.
ShareUuid(n) == "s" \o ToString(n)

\* Uuid::new_v4() in create_event: an identifier never handed out before.
EvUuid(n) == "e" \o ToString(n)

\* The principals: the user identifiers a verified token can carry.
Users == {"u1", "u2"}

-----------------------------------------------------------------------------
(* Results: Result<T, AppError> of error.rs.  kind is "Ok" or the name of  *)
(* the AppError variant, msg its message, value is Some(the success value) *)
(* or None.  A panic of the handler's task is the kind "Panic".            *)

Ok(v) == [kind |-> "Ok", msg |-> "", value |-> Some(v)]

Err(k, m) == [kind |-> k, msg |-> m, value |-> None]

-----------------------------------------------------------------------------
(* Date-times: DateTime<Utc> at second precision, <<year, month, day,      *)
(* hour, minute, second>>.                                                 *)

DigitChars == <<"0", "1", "2", "3", "4", "5", "6", "7", "8", "9">>

IsDigit(c) == \E i \in 1..10 : DigitChars[i] = c

DigitVal(c) == (CHOOSE i \in 1..10 : DigitChars[i] = c) - 1

IsDigits(s) == \A i \in 1..Len(s) : IsDigit(s[i])

RECURSIVE NumVal(_)
NumVal(s) ==
  IF Len(s) = 0 THEN 0
  ELSE 10 * NumVal(SubSeq(s, 1, Len(s) - 1)) + DigitVal(s[Len(s)])

\* a number zero-padded to w digits
RECURSIVE Pad(_, _)
Pad(n, w) == IF w = 0 THEN <<>> ELSE Pad(n \div 10, w - 1) \o <<DigitChars[(n % 10) + 1]>>

IsLeap(y) == (y % 4 = 0 /\ y % 100 # 0) \/ y % 400 = 0

DaysIn(y, m) ==
  IF m = 2 THEN (IF IsLeap(y) THEN 29 ELSE 28)
  ELSE IF m \in {4, 6, 9, 11} THEN 30 ELSE 31

\* DateTime::format("%Y%m%dT%H%M%SZ")
FormatDateTime(dt) ==
  Pad(dt[1], 4) \o Pad(dt[2], 2) \o Pad(dt[3], 2) \o <<"T">>
    \o Pad(dt[4], 2) \o Pad(dt[5], 2) \o Pad(dt[6], 2) \o <<"Z">>

\* NaiveDate::parse_from_str(s, "%Y%m%d") followed by and_hms_opt(0, 0, 0):
\* Some(midnight of the date) or None
ParseDate(s) ==
  IF /\ Len(s) = 8
     /\ IsDigits(s)
     /\ NumVal(SubSeq(s, 5, 6)) \in 1..12
     /\ NumVal(SubSeq(s, 7, 8)) \in 1..DaysIn(NumVal(SubSeq(s, 1, 4)), NumVal(SubSeq(s, 5, 6)))
  THEN Some(<<NumVal(SubSeq(s, 1, 4)), NumVal(SubSeq(s, 5, 6)), NumVal(SubSeq(s, 7, 8)), 0, 0, 0>>)
  ELSE None

\* NaiveDateTime::parse_from_str(s, "%Y%m%dT%H%M%S"): Some(instant) or None
\* (%S accepts the leap second 60)
ParseDateTime(s) ==
  IF /\ Len(s) = 15
     /\ s[9] = "T"
     /\ ParseDate(SubSeq(s, 1, 8)) # None
     /\ IsDigits(SubSeq(s, 10, 15))
     /\ NumVal(SubSeq(s, 10, 11)) \in 0..23
     /\ NumVal(SubSeq(s, 12, 13)) \in 0..59
     /\ NumVal(SubSeq(s, 14, 15)) \in 0..60
  THEN Some(<<NumVal(SubSeq(s, 1, 4)), NumVal(SubSeq(s, 5, 6)), NumVal(SubSeq(s, 7, 8)),
              NumVal(SubSeq(s, 10, 11)), NumVal(SubSeq(s, 12, 13)), NumVal(SubSeq(s, 14, 15))>>)
  ELSE None

\* the white space str::trim removes
IsSpace(c) == c \in {" ", "\t", "\r", "\n"}

\* str::trim
RECURSIVE Trim(_)
Trim(s) ==
  IF Len(s) > 0 /\ IsSpace(s[1]) THEN Trim(Tail(s))
  ELSE IF Len(s) > 0 /\ IsSpace(s[Len(s)]) THEN Trim(SubSeq(s, 1, Len(s) - 1))
  ELSE s

\* .map_err(|_| AppError::ValidationError(msg)) on a parse outcome
MapErr(parsed, msg) ==
  IF parsed # None THEN Ok(parsed[1]) ELSE Err("ValidationError", msg)

\* parse_ical_datetime after the trim: the DATE form, the UTC form (its
\* first 15 characters; slicing a shorter text panics), else the floating form
ParseTrimmed(s) ==
  IF Len(s) = 8
  THEN MapErr(ParseDate(s), "Invalid date format")
  ELSE IF Len(s) > 0 /\ s[Len(s)] = "Z"
  THEN (IF Len(s) < 15 THEN Err("Panic", "byte index 15 is out of bounds")
        ELSE MapErr(ParseDateTime(SubSeq(s, 1, 15)), "Invalid datetime format"))
  ELSE MapErr(ParseDateTime(s), "Invalid datetime format")

\* parse_ical_datetime
parse_ical_datetime(date_str) == ParseTrimmed(Trim(date_str))

-----------------------------------------------------------------------------
(* The iCalendar codec. *)

\* str::replace(c, r) for a one-character pattern
RECURSIVE Replace(_, _, _)
Replace(s, c, r) ==
  IF Len(s) = 0 THEN <<>>
  ELSE (IF Head(s) = c THEN r ELSE <<Head(s)>>) \o Replace(Tail(s), c, r)

\* the four replacements with the backslash replaced last
escape_ical_text_BackslashLast(text) ==
  Replace(Replace(Replace(Replace(text, ";", <<"\\", ";">>),
                          ",", <<"\\", ",">>),
                  "\n", <<"\\", "n">>),
          "\\", <<"\\", "\\">>)

\* escape_ical_text: the four replacements, in the code's order
escape_ical_text(text) ==
  Replace(Replace(Replace(Replace(text, "\\", <<"\\", "\\">>),
                          ";", <<"\\", ";">>),
                  ",", <<"\\", ",">>),
          "\n", <<"\\", "n">>)

\* Option<String>.map(escape_ical_text).unwrap_or_default()
EscapeOrDefault(opt) == IF opt = None THEN <<>> ELSE escape_ical_text(opt[1])

CRLF == <<"\r", "\n">>

\* the encoder leaving out the DESCRIPTION and LOCATION lines of an event
\* that has none
to_ical_string_OmitAbsent(event) ==
  <<"BEGIN", ":", "VEVENT">> \o CRLF
    \o <<"UID", ":", event.id>> \o CRLF
    \o <<"SUMMARY", ":">> \o escape_ical_text(event.title) \o CRLF
    \o (IF event.description = None THEN <<>>
        ELSE <<"DESCRIPTION", ":">> \o escape_ical_text(event.description[1]) \o CRLF)
    \o (IF event.location = None THEN <<>>
        ELSE <<"LOCATION", ":">> \o escape_ical_text(event.location[1]) \o CRLF)
    \o <<"DTSTART", ":">> \o FormatDateTime(event.start_time) \o CRLF
    \o <<"DTEND", ":">> \o FormatDateTime(event.end_time) \o CRLF
    \o <<"END", ":", "VEVENT">> \o CRLF

\* ICalendarEvent::from(&event).to_ical_string()
to_ical_string(event) ==
  <<"BEGIN", ":", "VEVENT">> \o CRLF
    \o <<"UID", ":", event.id>> \o CRLF
    \o <<"SUMMARY", ":">> \o escape_ical_text(event.title) \o CRLF
    \o <<"DESCRIPTION", ":">> \o EscapeOrDefault(event.description) \o CRLF
    \o <<"LOCATION", ":">> \o EscapeOrDefault(event.location) \o CRLF
    \o <<"DTSTART", ":">> \o FormatDateTime(event.start_time) \o CRLF
    \o <<"DTEND", ":">> \o FormatDateTime(event.end_time) \o CRLF
    \o <<"END", ":", "VEVENT">> \o CRLF

\* str::lines: a final empty piece is not a line
DropLastEmpty(pieces) ==
  IF pieces[Len(pieces)] = <<>> THEN SubSeq(pieces, 1, Len(pieces) - 1) ELSE pieces

\* str::lines: a line ends before its "\r\n"
StripCr(piece) ==
  IF Len(piece) > 0 /\ piece[Len(piece)] = "\r"
  THEN SubSeq(piece, 1, Len(piece) - 1)
  ELSE piece

\* str::lines applied to the pieces between "\n"
LinesOf(pieces) == [i \in 1..Len(pieces) |-> StripCr(pieces[i])]

\* str::lines
Lines(data) == LinesOf(DropLastEmpty(Split(data, "\n")))

\* .last() of a collected split
Last(pieces) == pieces[Len(pieces)]

\* the last piece of line.split(':')
AfterLastColon(line) == Last(Split(line, ":"))

\* the mutable locals of parse_icalendar before the first line
ParseStart ==
  [title |-> None, description |-> None, location |-> None,
   start_time |-> None, end_time |-> None, is_all_day |-> FALSE, err |-> None]

\* start_time = Some(parse_ical_datetime(..)?)
StoreStart(acc, r) ==
  IF r.kind = "Ok" THEN [acc EXCEPT !.start_time = r.value]
  ELSE [acc EXCEPT !.err = Some(r)]

\* end_time = Some(parse_ical_datetime(..)?)
StoreEnd(acc, r) ==
  IF r.kind = "Ok" THEN [acc EXCEPT !.end_time = r.value]
  ELSE [acc EXCEPT !.err = Some(r)]

\* one iteration of the loop of parse_icalendar, after line.trim()
ParseTrimmedLine(acc, line) ==
  IF StartsWith(line, <<"SUMMARY", ":">>)
  THEN [acc EXCEPT !.title = Some(SubSeq(line, 3, Len(line)))]
  ELSE IF StartsWith(line, <<"DESCRIPTION", ":">>)
  THEN [acc EXCEPT !.description = Some(SubSeq(line, 3, Len(line)))]
  ELSE IF StartsWith(line, <<"LOCATION", ":">>)
  THEN [acc EXCEPT !.location = Some(SubSeq(line, 3, Len(line)))]
  ELSE IF StartsWith(line, <<"DTSTART">>)
  THEN StoreStart(acc, parse_ical_datetime(AfterLastColon(line)))
  ELSE IF StartsWith(line, <<"DTEND">>)
  THEN StoreEnd(acc, parse_ical_datetime(AfterLastColon(line)))
  ELSE IF Contains(line, "VALUE=DATE")
  THEN [acc EXCEPT !.is_all_day = TRUE]
  ELSE acc

\* one iteration of the loop of parse_icalendar
ParseLine(acc, raw) == ParseTrimmedLine(acc, Trim(raw))

\* the loop of parse_icalendar; `?` leaves it at the first failed date-time
RECURSIVE ParseLines(_, _)
ParseLines(acc, lines) ==
  IF Len(lines) = 0 \/ acc.err # None THEN acc
  ELSE ParseLines(ParseLine(acc, Head(lines)), Tail(lines))

\* parse_icalendar after the loop: the error of the loop, a missing
\* required property, or the NewEvent
BuildNewEvent(acc) ==
  IF acc.err # None THEN acc.err[1]
  ELSE IF acc.title = None THEN Err("ValidationError", "Missing SUMMARY")
  ELSE IF acc.start_time = None THEN Err("ValidationError", "Missing DTSTART")
  ELSE IF acc.end_time = None THEN Err("ValidationError", "Missing DTEND")
  ELSE Ok([title |-> acc.title[1], description |-> acc.description,
           location |-> acc.location, start_time |-> acc.start_time[1],
           end_time |-> acc.end_time[1], is_all_day |-> acc.is_all_day])

\* parse_icalendar: Ok(NewEvent) or the error
parse_icalendar(data) == BuildNewEvent(ParseLines(ParseStart, Lines(data)))

-----------------------------------------------------------------------------
(* The state. *)

VARIABLES
  calendars,  \* the calendars table: rows [id, user_id, name, is_public]
  events,     \* the events table: rows [id, calendar_id, title, description,
              \*   location, start_time, end_time, is_all_day]
  nextCal,    \* how many calendar identifiers Uuid::new_v4 has handed out, plus 1
  nextEv,     \* how many event identifiers Uuid::new_v4 has handed out, plus 1
  last,       \* the last request handled and its response
  deleted,    \* the event identifiers a caldav_delete has answered 204 for
  codec,      \* the value the iCalendar codec works on, and what it made of it
  task,       \* the handler that is between two of its data-access calls
  shares,     \* the shares table: rows [id, calendar_id, user_id, shared_with]
  nextShare,  \* how many share identifiers Uuid::new_v4 has handed out, plus 1
  procs       \* the requests served at the same time, each between two of
              \*   its data-access calls

vars ==
  <<calendars, events, nextCal, nextEv, last, deleted, codec, task, shares, nextShare, procs>>

-----------------------------------------------------------------------------
(* services.rs: the data-access layer. *)

\* sqlx fetch_optional: the first row, if any
fetch_optional(rows) == IF Len(rows) = 0 THEN None ELSE Some(rows[1])

\* the SELECT also returning the public calendars of other users
get_calendars_by_user_id_OrPublic(user_id) ==
  SelectSeq(calendars, LAMBDA c : c.user_id = user_id \/ c.is_public)

\* SELECT ... FROM calendars WHERE user_id = ?
get_calendars_by_user_id(user_id) ==
  SelectSeq(calendars, LAMBDA c : c.user_id = user_id)

\* SELECT ... FROM calendars WHERE id = ?
get_calendar_by_id(id) ==
  fetch_optional(SelectSeq(calendars, LAMBDA c : c.id = id))

\* the SELECT without its WHERE clause: the first event, whatever the id
get_event_by_id_NoWhere(id) == fetch_optional(events)

\* SELECT ... FROM events WHERE id = ?
get_event_by_id(id) ==
  fetch_optional(SelectSeq(events, LAMBDA e : e.id = id))

\* the SELECT without its WHERE clause: every event, whatever the calendar
get_events_by_calendar_id_NoWhere(calendar_id) == events

\* SELECT ... FROM events WHERE calendar_id = ?
get_events_by_calendar_id(calendar_id) ==
  SelectSeq(events, LAMBDA e : e.calendar_id = calendar_id)

\* create_calendar: the row INSERT ... RETURNING gives back
create_calendar(user_id, new_calendar) ==
  [id |-> CalUuid(nextCal), user_id |-> user_id,
   name |-> new_calendar.name, is_public |-> new_calendar.is_public]

\* create_event binding a fixed identifier instead of a new one
create_event_FixedId(calendar_id, new_event) ==
  [id |-> EvUuid(1), calendar_id |-> calendar_id,
   title |-> new_event.title, description |-> new_event.description,
   location |-> new_event.location, start_time |-> new_event.start_time,
   end_time |-> new_event.end_time, is_all_day |-> new_event.is_all_day]

\* create_event: the row INSERT ... RETURNING gives back; its identifier is
\* a new Uuid::new_v4(), its calendar the one passed in
create_event(calendar_id, new_event) ==
  [id |-> EvUuid(nextEv), calendar_id |-> calendar_id,
   title |-> new_event.title, description |-> new_event.description,
   location |-> new_event.location, start_time |-> new_event.start_time,
   end_time |-> new_event.end_time, is_all_day |-> new_event.is_all_day]

\* the DELETE comparing the wrong column, so that no row matches
delete_event_WrongColumn(id) == SelectSeq(events, LAMBDA e : e.calendar_id # id)

\* delete_event: the events table after DELETE FROM events WHERE id = ?
delete_event(id) == SelectSeq(events, LAMBDA e : e.id # id)

\* delete_calendar: the events table after DELETE FROM events WHERE calendar_id = ?
delete_calendar_events(id) == SelectSeq(events, LAMBDA e : e.calendar_id # id)

\* delete_calendar: the calendars table after DELETE FROM calendars WHERE id = ?
delete_calendar_row(id) == SelectSeq(calendars, LAMBDA c : c.id # id)

\* the DELETE without its WHERE clause: the shares of every calendar go
delete_calendar_shares_All(id) == <<>>

\* delete_calendar: the shares table after DELETE FROM shares WHERE calendar_id = ?
delete_calendar_shares(id) == SelectSeq(shares, LAMBDA s : s.calendar_id # id)

\* create_share: the row the INSERT stores; its identifier is a new
\* Uuid::new_v4(), its calendar and user the ones passed in
create_share(calendar_id, user_id, new_share) ==
  [id |-> ShareUuid(nextShare), calendar_id |-> calendar_id, user_id |-> user_id,
   shared_with_user_id |-> new_share.shared_with_user_id]

\* delete_share: the shares table after DELETE FROM shares WHERE id = ?
delete_share(id) == SelectSeq(shares, LAMBDA s : s.id # id)

\* get_all_shares, called by the web handler: every row of the shares table
get_all_shares == shares

-----------------------------------------------------------------------------
(* Responses. *)

\* Response::builder().status(status) with no header and an empty body
Response(status) ==
  [status |-> status, content_type |-> "", location |-> <<>>, etag |-> <<>>,
   www_authenticate |-> "", body |-> <<>>]

\* AppError::into_response: the status of each error kind
StatusOf(kind) ==
  CASE kind = "DatabaseError" -> 500
    [] kind = "AuthenticationError" -> 401
    [] kind = "ValidationError" -> 400
    [] kind = "NotFoundError" -> 404
    [] kind = "InternalServerError" -> 500
    [] kind = "PasswordHashError" -> 500
    [] kind = "JwtError" -> 401
    [] kind = "UuidError" -> 400

\* AppError::into_response: the fixed message of each error kind
MessageOf(kind) ==
  CASE kind = "DatabaseError" -> "Database error"
    [] kind = "AuthenticationError" -> "Authentication error"
    [] kind = "ValidationError" -> "Validation error"
    [] kind = "NotFoundError" -> "Not found"
    [] kind = "InternalServerError" -> "Internal server error"
    [] kind = "PasswordHashError" -> "Password hashing error"
    [] kind = "JwtError" -> "JWT error"
    [] kind = "UuidError" -> "Invalid UUID"

\* What the client receives for a handler's Result: the response itself, or
\* the error's JSON response; a panic of the task sends no response (status 0).
IntoResponse(res) ==
  IF res.kind = "Ok" THEN res.value[1]
  ELSE IF res.kind = "Panic" THEN Response(0)
  ELSE [Response(StatusOf(res.kind)) EXCEPT
          !.content_type = "application/json",
          !.body = <<"{\"error\":", MessageOf(res.kind), ",\"status\":",
                     ToString(StatusOf(res.kind)), "}">>]

-----------------------------------------------------------------------------
(* handlers.rs: the CalDAV handlers. *)

\* format!("/calendars/{}/", calendar.id)
CalendarUrl(calendar_id) == <<"/", "calendars", "/", calendar_id, "/">>

\* format!("/calendars/{}/{}.ics", calendar_id, event_id)
EventUrl(calendar_id, event_id) ==
  <<"/", "calendars", "/", calendar_id, "/", event_id, ".ics">>

\* format!("\"{}\"", event.id)
QuotedId(id) == <<"\"", id, "\"">>

\* escape_xml: the five replacements, in the code's order
escape_xml(s) ==
  Replace(Replace(Replace(Replace(Replace(s, "&", <<"&", "a", "m", "p", ";">>),
                                  "<", <<"&", "l", "t", ";">>),
                          ">", <<"&", "g", "t", ";">>),
                  "\"", <<"&", "q", "u", "o", "t", ";">>),
          "'", <<"&", "a", "p", "o", "s", ";">>)

\* the <?xml ...?> line and the opening tag of the multistatus document
MultistatusOpen == <<"<?xml version=\"1.0\" encoding=\"utf-8\"?>", "<d:multistatus>">>

MultistatusClose == <<"</d:multistatus>">>

\* caldav_discovery
caldav_discovery ==
  Ok([Response(200) EXCEPT !.content_type = "text/plain",
                           !.body = <<"/", "calendars", "/">>])

\* caldav_propfind: the <d:response> block of one calendar
PropfindResponse(calendar) ==
  <<"<d:response>", "<d:href>">> \o CalendarUrl(calendar.id)
    \o <<"</d:href>", "<d:propstat>", "<d:prop>", "<d:resourcetype>",
         "<d:collection/>", "<cal:calendar/>", "</d:resourcetype>",
         "<d:displayname>">>
    \o calendar.name
    \o <<"</d:displayname>", "<cal:supported-calendar-component-set>",
         "<cal:comp name=\"VEVENT\"/>", "<cal:comp name=\"VTODO\"/>",
         "</cal:supported-calendar-component-set>", "</d:prop>",
         "<d:status>", "HTTP/1.1 200 OK", "</d:status>", "</d:propstat>",
         "</d:response>">>

\* caldav_propfind
caldav_propfind(user_id) ==
  LET cals == get_calendars_by_user_id(user_id)
      responses == Concat([i \in 1..Len(cals) |-> PropfindResponse(cals[i])])
  IN Ok([Response(207) EXCEPT
           !.content_type = "application/xml; charset=utf-8",
           !.body = MultistatusOpen \o responses \o MultistatusClose])

\* caldav_report: the <d:response> block of one event of one calendar
ReportResponse(calendar, event) ==
  <<"<d:response>", "<d:href>">> \o EventUrl(calendar.id, event.id)
    \o <<"</d:href>", "<d:propstat>", "<d:prop>", "<d:getetag>">>
    \o QuotedId(event.id)
    \o <<"</d:getetag>", "<cal:calendar-data>">>
    \o escape_xml(to_ical_string(event))
    \o <<"</cal:calendar-data>", "</d:prop>", "<d:status>", "HTTP/1.1 200 OK",
         "</d:status>", "</d:propstat>", "</d:response>">>

\* caldav_report: the inner loop, the blocks of the events of one calendar
ReportCalendar(calendar) ==
  LET evs == get_events_by_calendar_id(calendar.id)
  IN Concat([j \in 1..Len(evs) |-> ReportResponse(calendar, evs[j])])

\* caldav_report; the request body is not read
caldav_report(user_id, body) ==
  LET cals == get_calendars_by_user_id(user_id)
      responses == Concat([i \in 1..Len(cals) |-> ReportCalendar(cals[i])])
  IN Ok([Response(207) EXCEPT
           !.content_type = "application/xml; charset=utf-8",
           !.body = MultistatusOpen \o responses \o MultistatusClose])

\* the split without trim_start_matches: the first segment is empty
PathParts_NoTrim(path) == Split(path, "/")

\* path.trim_start_matches('/').split('/').collect()
PathParts(path) == Split(TrimStartMatches(path, "/"), "/")

\* the access check with the public flag read the wrong way round
AccessDenied_FlagInverted(calendar, user_id) ==
  calendar.user_id # user_id /\ calendar.is_public

\* caldav_get: the access check
AccessDenied(calendar, user_id) ==
  calendar.user_id # user_id /\ ~calendar.is_public

\* caldav_get: the whole-calendar document
CalendarDocument(calendar) ==
  LET evs == get_events_by_calendar_id(calendar.id)
  IN <<"BEGIN", ":", "VCALENDAR">> \o CRLF
       \o <<"VERSION", ":", "2.0">> \o CRLF
       \o <<"PRODID", ":", "-//My CalDAV Server//EN">> \o CRLF
       \o <<"CALSCALE", ":", "GREGORIAN">> \o CRLF
       \o <<"X-WR-CALNAME", ":">> \o calendar.name \o CRLF
       \o Concat([i \in 1..Len(evs) |-> to_ical_string(evs[i])])
       \o <<"END", ":", "VCALENDAR">> \o CRLF

\* caldav_get: the single-event document
EventDocument(event) ==
  <<"BEGIN", ":", "VCALENDAR">> \o CRLF
    \o <<"VERSION", ":", "2.0">> \o CRLF
    \o <<"PRODID", ":", "-//My CalDAV Server//EN">> \o CRLF
    \o to_ical_string(event)
    \o <<"END", ":", "VCALENDAR">> \o CRLF

\* caldav_get: the part after the access check, for one event
GetEvent(parts) ==
  LET event_id == Uuid_parse_str(TrimEndMatches(parts[3], ".ics"))
  IN IF event_id = None THEN Err("UuidError", "")
     ELSE LET event == get_event_by_id(event_id[1])
          IN IF event = None THEN Err("NotFoundError", "Event not found")
             ELSE Ok([Response(200) EXCEPT
                        !.content_type = "text/calendar; charset=utf-8",
                        !.etag = QuotedId(event[1].id),
                        !.body = EventDocument(event[1])])

\* caldav_get
caldav_get(user_id, path) ==
  LET parts == PathParts(path)
  IN IF Len(parts) < 2 THEN Err("ValidationError", "Invalid calendar path")
     ELSE LET calendar_id == Uuid_parse_str(parts[2])
          IN IF calendar_id = None THEN Err("UuidError", "")
             ELSE LET calendar == get_calendar_by_id(calendar_id[1])
                  IN IF calendar = None THEN Err("NotFoundError", "Calendar not found")
                     ELSE IF AccessDenied(calendar[1], user_id)
                     THEN Err("AuthenticationError", "Access denied")
                     ELSE IF Len(parts) = 2 \/ parts[3] = <<>>
                     THEN Ok([Response(200) EXCEPT
                                !.content_type = "text/calendar; charset=utf-8",
                                !.body = CalendarDocument(calendar[1])])
                     ELSE GetEvent(parts)

\* caldav_put: create_event and the 201 response.  The outcome is the
\* result and the events table after the call.
Created(calendar_id, event) ==
  [res |-> Ok([Response(201) EXCEPT
                 !.location = EventUrl(calendar_id, event.id),
                 !.etag = QuotedId(event.id)]),
   events |-> Append(events, event)]

\* caldav_put: parse_icalendar(&body)? and what follows it
StoreParsed(calendar_id, new_event) ==
  IF new_event.kind # "Ok"
  THEN [res |-> Err(new_event.kind, new_event.msg), events |-> events]
  ELSE Created(calendar_id, create_event(calendar_id, new_event.value[1]))

\* caldav_put: the part after the ownership check
PutEvent(calendar_id, body) == StoreParsed(calendar_id, parse_icalendar(body))

\* the ownership check with the public-read exception of GET copied in
NotOwner_PublicWrite(calendar, user_id) ==
  calendar.user_id # user_id /\ ~calendar.is_public

\* caldav_put: the ownership check
NotOwner(calendar, user_id) == calendar.user_id # user_id

\* caldav_put
caldav_put(user_id, path, body) ==
  LET parts == PathParts(path)
  IN IF Len(parts) < 3
     THEN [res |-> Err("ValidationError", "Invalid event path"), events |-> events]
     ELSE LET calendar_id == Uuid_parse_str(parts[2])
          IN IF calendar_id = None
             THEN [res |-> Err("UuidError", ""), events |-> events]
             ELSE LET calendar == get_calendar_by_id(calendar_id[1])
                  IN IF calendar = None
                     THEN [res |-> Err("NotFoundError", "Calendar not found"), events |-> events]
                     ELSE IF NotOwner(calendar[1], user_id)
                     THEN [res |-> Err("AuthenticationError", "You don't own this calendar"),
                           events |-> events]
                     ELSE PutEvent(calendar_id[1], body)

\* caldav_delete: the ownership check, on the calendar of the event
NotEventOwner(calendar, user_id) == calendar.user_id # user_id

\* caldav_delete: the part after the event is loaded
DeleteLoaded(event, user_id) ==
  LET calendar == get_calendar_by_id(event.calendar_id)
  IN IF calendar = None
     THEN [res |-> Err("NotFoundError", "Calendar not found"), events |-> events]
     ELSE IF NotEventOwner(calendar[1], user_id)
     THEN [res |-> Err("AuthenticationError", "You don't have access to this event"),
           events |-> events]
     ELSE [res |-> Ok(Response(204)), events |-> delete_event(event.id)]

\* caldav_delete
caldav_delete(user_id, path) ==
  LET parts == PathParts(path)
  IN IF Len(parts) < 3
     THEN [res |-> Err("ValidationError", "Invalid event path"), events |-> events]
     ELSE LET event_id == Uuid_parse_str(TrimEndMatches(parts[3], ".ics"))
          IN IF event_id = None
             THEN [res |-> Err("UuidError", ""), events |-> events]
             ELSE LET event == get_event_by_id(event_id[1])
                  IN IF event = None
                     THEN [res |-> Err("NotFoundError", "Event not found"), events |-> events]
                     ELSE DeleteLoaded(event[1], user_id)

-----------------------------------------------------------------------------
(* handlers.rs, handlers/auth.rs: the REST handlers that fill and empty    *)
(* the store.                                                              *)

\* handlers::auth::create_calendar: the calendar belongs to the requester
rest_create_calendar(user_id, new_calendar) ==
  LET calendar == create_calendar(user_id, new_calendar)
  IN [res |-> Ok([Response(200) EXCEPT !.content_type = "application/json",
                                       !.body = <<calendar.id>>]),
      calendars |-> Append(calendars, calendar)]

\* handlers::auth::create_event: only into a calendar the requester owns
rest_create_event(user_id, calendar_id, new_event) ==
  LET calendar == get_calendar_by_id(calendar_id)
  IN IF calendar = None
     THEN [res |-> Err("NotFoundError", "Calendar not found"), events |-> events]
     ELSE IF calendar[1].user_id # user_id
     THEN [res |-> Err("AuthenticationError", "You don't own this calendar"),
           events |-> events]
     ELSE LET event == create_event(calendar_id, new_event)
          IN [res |-> Ok([Response(200) EXCEPT !.content_type = "application/json",
                                               !.body = <<event.id>>]),
              events |-> Append(events, event)]

\* handlers::delete_calendar: the owner deletes the calendar and its events
rest_delete_calendar(user_id, calendar_id) ==
  LET calendar == get_calendar_by_id(calendar_id)
  IN IF calendar = None
     THEN [res |-> Err("NotFoundError", "Calendar not found"),
           calendars |-> calendars, events |-> events, shares |-> shares]
     ELSE IF calendar[1].user_id # user_id
     THEN [res |-> Err("AuthenticationError", "You don't own this calendar"),
           calendars |-> calendars, events |-> events, shares |-> shares]
     ELSE [res |-> Ok(Response(204)),
           calendars |-> delete_calendar_row(calendar_id),
           events |-> delete_calendar_events(calendar_id),
           shares |-> delete_calendar_shares(calendar_id)]

\* Share::from_row on the row create_share's RETURNING clause gives: the
\* clause names no shared_with_email column, which from_row asks for
ShareFromRow(share) ==
  Err("DatabaseError", "no column found for name \"shared_with_email\"")

\* handlers::create_share: only the owner shares a calendar; the INSERT has
\* stored the row when the decoding of the returned row fails
rest_create_share(user_id, calendar_id, new_share) ==
  LET calendar == get_calendar_by_id(calendar_id)
  IN IF calendar = None
     THEN [res |-> Err("NotFoundError", "Calendar not found"), shares |-> shares]
     ELSE IF calendar[1].user_id # user_id
     THEN [res |-> Err("AuthenticationError", "You don't own this calendar"),
           shares |-> shares]
     ELSE LET share == create_share(calendar_id, user_id, new_share)
          IN [res |-> ShareFromRow(share), shares |-> Append(shares, share)]

\* handlers::delete_share: the requester is not looked at
rest_delete_share(user_id, share_id) ==
  [res |-> Ok(Response(204)), shares |-> delete_share(share_id)]

\* Redirect::to(uri): 303 See Other
Redirect(uri) == [Response(303) EXCEPT !.location = uri]

\* handlers::web::delete_share_handler: the part after the share is found
DeleteFoundShare(user, share) ==
  LET calendar == get_calendar_by_id(share.calendar_id)
  IN IF calendar = None
     THEN [res |-> Err("NotFoundError", "Calendar not found"), shares |-> shares]
     ELSE IF calendar[1].user_id # user
     THEN [res |-> Err("AuthenticationError", "Access denied"), shares |-> shares]
     ELSE [res |-> Ok(Redirect(<<"/", "web", "/", "calendars", "/", share.calendar_id,
                                 "?message=Share removed&flash_type=success">>)),
           shares |-> delete_share(share.id)]

\* handlers::web::delete_share_handler
delete_share_handler(user, share_id) ==
  LET share == fetch_optional(SelectSeq(get_all_shares, LAMBDA s : s.id = share_id))
  IN IF share = None
     THEN [res |-> Err("NotFoundError", "Share not found"), shares |-> shares]
     ELSE DeleteFoundShare(user, share[1])

\* the ids of the users table: the default user of initialize_database and
\* a second registered user
UserIds == {"u1", "u2"}

\* services.rs get_user_by_id: the SELECT names id, email, password_hash,
\* created_at and updated_at, and User::from_row asks the row for "name",
\* so a row that is found fails to decode; no row gives Ok(None)
get_user_by_id(id) ==
  IF id \in UserIds
  THEN Err("DatabaseError", "no column found for name \"name\"")
  ELSE Ok(None)

\* Json(row): the body names the row by its id and carries its text field
Json(id, text) ==
  [Response(200) EXCEPT !.content_type = "application/json", !.body = <<id>> \o text]

\* handlers::get_user_by_id
rest_get_user_by_id(user_id) ==
  LET user == get_user_by_id(user_id)
  IN IF user.kind # "Ok" THEN Err(user.kind, user.msg)
     ELSE IF user.value[1] = None THEN Err("NotFoundError", "User not found")
     ELSE Ok(Json(user.value[1][1].id, user.value[1][1].password_hash))

\* handlers::get_calendar_by_id
rest_get_calendar_by_id(calendar_id) ==
  LET calendar == get_calendar_by_id(calendar_id)
  IN IF calendar = None THEN Err("NotFoundError", "Calendar not found")
     ELSE Ok(Json(calendar[1].id, calendar[1].name))

\* handlers::get_event_by_id
rest_get_event_by_id(event_id) ==
  LET event == get_event_by_id(event_id)
  IN IF event = None THEN Err("NotFoundError", "Event not found")
     ELSE Ok(Json(event[1].id, event[1].title))

-----------------------------------------------------------------------------
(* The inputs of the model. *)

CalIds == {CalUuid(n) : n \in 1..MaxCalendars}

EvIds == {EvUuid(n) : n \in 1..MaxEvents}

\* the NewCalendar values of the REST requests
NewCalendars == {[name |-> <<"R", "&", "D">>, is_public |-> b] : b \in BOOLEAN}

\* the NewEvent value of the REST requests
NewEvents ==
  {[title |-> <<"a", ";", "<", "b">>, description |-> None,
    location |-> Some(<<"H", "Q">>),
    start_time |-> <<2024, 3, 1, 9, 0, 0>>, end_time |-> <<2024, 3, 1, 9, 15, 0>>,
    is_all_day |-> FALSE]}

\* a PUT body: a complete event with UTC date-times, the event of NewEvents
BodyStandup ==
  <<"BEGIN", ":", "VCALENDAR">> \o CRLF
    \o <<"BEGIN", ":", "VEVENT">> \o CRLF
    \o <<"UID", ":", "x">> \o CRLF
    \o <<"SUMMARY", ":", "a", ";", "<", "b">> \o CRLF
    \o <<"LOCATION", ":", "H", "Q">> \o CRLF
    \o <<"DTSTART", ":">> \o FormatDateTime(<<2024, 3, 1, 9, 0, 0>>) \o CRLF
    \o <<"DTEND", ":">> \o FormatDateTime(<<2024, 3, 1, 9, 15, 0>>) \o CRLF
    \o <<"END", ":", "VEVENT">> \o CRLF
    \o <<"END", ":", "VCALENDAR">> \o CRLF

\* a PUT body without a SUMMARY line
BodyNoSummary ==
  <<"BEGIN", ":", "VEVENT">> \o <<"\n">>
    \o <<"DTSTART", ":">> \o Pad(20240115, 8) \o <<"\n">>
    \o <<"DTEND", ":">> \o Pad(20240116, 8) \o <<"\n">>
    \o <<"END", ":", "VEVENT">> \o <<"\n">>

\* a PUT body whose DTSTART is not a date
BodyBadDate ==
  <<"SUMMARY", ":", "S">> \o CRLF
    \o <<"DTSTART", ":">> \o Pad(20241315, 8) \o CRLF
    \o <<"DTEND", ":">> \o Pad(20240116, 8) \o CRLF

\* a PUT body whose DTSTART ends in Z and is shorter than a UTC date-time
BodyShortZ ==
  <<"SUMMARY", ":", "S">> \o CRLF
    \o <<"DTSTART", ":", "2", "0", "2", "4", "Z">> \o CRLF
    \o <<"DTEND", ":">> \o Pad(20240116, 8) \o CRLF

PutBodies == {BodyStandup, BodyNoSummary, BodyBadDate, BodyShortZ}

\* the REPORT bodies: an empty body and a calendar-query naming a time range
ReportBodies == {<<>>, <<"<cal:calendar-query>", "<cal:time-range/>", "</cal:calendar-query>">>}

\* the request paths given to the CalDAV handlers
CalDavPaths ==
  {<<"/", "calendars">>}
    \cup {<<"/", "calendars", "/", c>> : c \in CalIds \cup {"x"}}
    \cup {CalendarUrl(c) : c \in CalIds}
    \cup {EventUrl(c, e) : c \in CalIds, e \in EvIds \cup {"x"}}

-----------------------------------------------------------------------------
(* The actions: one per handler. *)

\* the record of a request handled by `op` for principal `user`
Handled(op, user, path, body, res) ==
  [op |-> op, method |-> "", authorization |-> None, cookie |-> None,
   user |-> Some(user), path |-> path, body |-> body,
   kind |-> res.kind, msg |-> res.msg, resp |-> IntoResponse(res), handler |-> op]

\* no request is being answered
Idle ==
  [op |-> "none", method |-> "", authorization |-> None, cookie |-> None,
   user |-> None, path |-> <<>>, body |-> <<>>,
   kind |-> "", msg |-> "", resp |-> Response(0), handler |-> ""]

\* the codec is not at work
NoCodec == [op |-> "none"]

\* no handler is between two data-access calls
NoTask == [op |-> "none"]

\* no requests are served at the same time
NoProcs == <<>>

Init ==
  /\ calendars = <<>>
  /\ events = <<>>
  /\ nextCal = 1
  /\ nextEv = 1
  /\ last = Idle
  /\ deleted = {}
  /\ codec = NoCodec
  /\ task = NoTask
  /\ shares = <<>>
  /\ nextShare = 1
  /\ procs = NoProcs

\* the response has been sent; the server takes the next request
Reply ==
  /\ last # Idle
  /\ last' = Idle
  /\ UNCHANGED <<calendars, events, nextCal, nextEv, deleted, codec, task, shares, nextShare, procs>>

CreateCalendar ==
  \E u \in Users, nc \in NewCalendars :
    /\ last = Idle
    /\ nextCal <= MaxCalendars
    /\ LET out == rest_create_calendar(u, nc)
       IN /\ calendars' = out.calendars
          /\ last' = Handled("create_calendar", u, <<>>, <<>>, out.res)
    /\ nextCal' = nextCal + 1
    /\ UNCHANGED <<events, nextEv, deleted, codec, task, shares, nextShare, procs>>

CreateEvent ==
  \E u \in Users, c \in CalIds, ne \in NewEvents :
    /\ last = Idle
    /\ nextEv <= MaxEvents
    /\ LET out == rest_create_event(u, c, ne)
       IN /\ events' = out.events
          /\ nextEv' = IF out.res.kind = "Ok" THEN nextEv + 1 ELSE nextEv
          /\ last' = Handled("create_event", u, <<c>>, <<>>, out.res)
    /\ UNCHANGED <<calendars, nextCal, deleted, codec, task, shares, nextShare, procs>>

DeleteCalendar ==
  \E u \in Users, c \in CalIds :
    /\ last = Idle
    /\ LET out == rest_delete_calendar(u, c)
       IN /\ calendars' = out.calendars
          /\ events' = out.events
          /\ shares' = out.shares
          /\ last' = Handled("delete_calendar", u, <<c>>, <<>>, out.res)
    /\ UNCHANGED <<nextCal, nextEv, deleted, codec, task, nextShare, procs>>

CaldavDiscovery ==
  /\ last = Idle
  /\ last' = [Handled("caldav_discovery", "", <<"/", ".well-known", "/", "caldav">>, <<>>,
                      caldav_discovery) EXCEPT !.user = None]
  /\ UNCHANGED <<calendars, events, nextCal, nextEv, deleted, codec, task, shares, nextShare, procs>>

CaldavPropfind ==
  \E u \in Users, path \in {<<"/", "calendars">>, <<"/", "calendars", "/">>} :
    /\ last = Idle
    /\ last' = Handled("caldav_propfind", u, path, <<>>, caldav_propfind(u))
    /\ UNCHANGED <<calendars, events, nextCal, nextEv, deleted, codec, task, shares, nextShare, procs>>

CaldavReport ==
  \E u \in Users, body \in ReportBodies :
    /\ last = Idle
    /\ last' = Handled("caldav_report", u, <<"/", "calendars">>, body, caldav_report(u, body))
    /\ UNCHANGED <<calendars, events, nextCal, nextEv, deleted, codec, task, shares, nextShare, procs>>

\* a GET that marks what it has read: the events table loses its last row
CaldavGet_Consuming ==
  \E u \in Users, path \in CalDavPaths :
    /\ last = Idle
    /\ last' = Handled("caldav_get", u, path, <<>>, caldav_get(u, path))
    /\ events' = IF caldav_get(u, path).kind = "Ok" /\ Len(events) > 0
                 THEN SubSeq(events, 1, Len(events) - 1) ELSE events
    /\ UNCHANGED <<calendars, nextCal, nextEv, deleted, codec, task, shares, nextShare, procs>>

CaldavGet ==
  \E u \in Users, path \in CalDavPaths :
    /\ last = Idle
    /\ last' = Handled("caldav_get", u, path, <<>>, caldav_get(u, path))
    /\ UNCHANGED <<calendars, events, nextCal, nextEv, deleted, codec, task, shares, nextShare, procs>>

CaldavPut ==
  \E u \in Users, path \in CalDavPaths, body \in PutBodies :
    /\ last = Idle
    /\ nextEv <= MaxEvents
    /\ LET out == caldav_put(u, path, body)
       IN /\ events' = out.events
          /\ nextEv' = IF out.res.kind = "Ok" THEN nextEv + 1 ELSE nextEv
          /\ last' = Handled("caldav_put", u, path, body, out.res)
    /\ UNCHANGED <<calendars, nextCal, deleted, codec, task, shares, nextShare, procs>>

CaldavDelete ==
  \E u \in Users, path \in CalDavPaths :
    /\ last = Idle
    /\ LET out == caldav_delete(u, path)
       IN /\ events' = out.events
          /\ last' = Handled("caldav_delete", u, path, <<>>, out.res)
          /\ deleted' = IF out.res.kind = "Ok"
                        THEN deleted \cup {TrimEndMatches(PathParts(path)[3], ".ics")[1]}
                        ELSE deleted
    /\ UNCHANGED <<calendars, nextCal, nextEv, codec, task, shares, nextShare, procs>>

Next ==
  \/ Reply
  \/ CreateCalendar
  \/ CreateEvent
  \/ DeleteCalendar
  \/ CaldavDiscovery
  \/ CaldavPropfind
  \/ CaldavReport
  \/ CaldavGet
  \/ CaldavPut
  \/ CaldavDelete

Spec == Init /\ [][Next]_vars

-----------------------------------------------------------------------------
(* middleware.rs: auth_middleware.  A header value is a text; a JWT is the *)
(* text <<sub, exp, key>> of its subject, its expiry and the key that      *)
(* signed it; a base64 text is its marker followed by the bytes it encodes. *)

\* AuthConfig::jwt_secret
jwt_secret == "secret"

\* jsonwebtoken::decode with Validation::new(HS256): the claims of a
\* well-formed token signed with the key and not expired, else None
decode(token, key) ==
  IF Len(token) = 3 /\ token[3] = key /\ token[2] = "exp:future"
  THEN Some([sub |-> <<token[1]>>])
  ELSE None

\* BASE64_STANDARD.decode(encoded).ok()
BASE64_STANDARD_decode(encoded) ==
  IF Len(encoded) > 0 /\ encoded[1] = "base64:" THEN Some(Tail(encoded)) ELSE None

\* String::from_utf8(decoded).ok()
from_utf8(bytes) == IF Contains(bytes, "\\xFF") THEN None ELSE Some(bytes)

\* the two pieces around position i, or the whole text when i = 0
SplitAt(s, i) ==
  IF i = 0 THEN <<s>> ELSE <<SubSeq(s, 1, i - 1), SubSeq(s, i + 1, Len(s))>>

\* str::splitn(2, c).collect()
Splitn2(s, c) == SplitAt(s, FirstIndex(s, c))

\* parse_basic_auth: the credentials of the two pieces
CredentialsOf(parts) ==
  IF Len(parts) # 2 THEN None
  ELSE Some([email |-> parts[1], password |-> parts[2]])

\* parse_basic_auth: after String::from_utf8
CredentialsOfText(decoded_str) ==
  IF decoded_str = None THEN None ELSE CredentialsOf(Splitn2(decoded_str[1], ":"))

\* parse_basic_auth: after the base64 decoding
CredentialsOfBytes(decoded) ==
  IF decoded = None THEN None ELSE CredentialsOfText(from_utf8(decoded[1]))

\* parse_basic_auth
parse_basic_auth(header_value) ==
  IF ~StartsWith(header_value, <<"Basic ">>) THEN None
  ELSE CredentialsOfBytes(BASE64_STANDARD_decode(Tail(header_value)))

\* is_caldav_endpoint
is_caldav_endpoint(path) ==
  \/ StartsWith(path, <<"/", "calendars">>)
  \/ path = <<"/", ".well-known", "/", "caldav">>
  \/ StartsWith(path, <<"/", "dav">>)
  \/ StartsWith(path, <<"/", "principals">>)

\* auth_middleware: is_web_route
is_web_route(path) ==
  /\ StartsWith(path, <<"/", "web", "/">>)
  /\ ~StartsWith(path, <<"/", "web", "/", "login">>)
  /\ ~StartsWith(path, <<"/", "web", "/", "register">>)

\* auth_middleware: is_api_route
is_api_route(path) ==
  /\ StartsWith(path, <<"/", "api", "/", "auth", "/">>)
  /\ ~StartsWith(path, <<"/", "api", "/", "auth", "/", "login">>)
  /\ ~StartsWith(path, <<"/", "api", "/", "auth", "/", "register">>)

\* auth_middleware: auth_required
auth_required(path) == is_web_route(path) \/ is_api_route(path) \/ is_caldav_endpoint(path)

\* parse_auth_cookie: the first cookie that starts with auth_token=
RECURSIVE FirstAuthCookie(_)
FirstAuthCookie(cookies) ==
  IF Len(cookies) = 0 THEN None
  ELSE IF StartsWith(Trim(Head(cookies)), <<"auth_token=">>)
  THEN Some(Tail(Trim(Head(cookies))))
  ELSE FirstAuthCookie(Tail(cookies))

\* parse_auth_cookie
parse_auth_cookie(cookie_str) == FirstAuthCookie(Split(cookie_str, ";"))

\* auth_middleware: the token of the Authorization header, else of the
\* Cookie header when there is no Authorization header at all
TokenOf(req) ==
  IF req.authorization # None
  THEN (IF StartsWith(req.authorization[1], <<"Bearer ">>)
        THEN Some(Tail(req.authorization[1]))
        ELSE None)
  ELSE IF req.cookie # None THEN parse_auth_cookie(req.cookie[1])
  ELSE None

\* auth_middleware: Uuid::parse_str(&decoded.claims.sub) of a decoded token
SubjectOf(decoded) == IF decoded = None THEN None ELSE Uuid_parse_str(decoded[1].sub)

\* auth_middleware: the user a token authenticates, if any
UserOfToken(token) ==
  IF token = None THEN None ELSE SubjectOf(decode(token[1], jwt_secret))

\* auth_middleware: the credentials of the Authorization header, if any
BasicOf(req) ==
  IF req.authorization = None THEN None ELSE parse_basic_auth(req.authorization[1])

\* next.run(req): the request goes on with these extensions
Forward(user_id, credentials) ==
  [forward |-> TRUE, user_id |-> user_id, credentials |-> credentials,
   resp |-> Response(0)]

\* the middleware answers itself
Respond(resp) ==
  [forward |-> FALSE, user_id |-> None, credentials |-> None, resp |-> resp]

\* auth_middleware: a request with neither a valid token nor Basic credentials
Unauthenticated(path) ==
  IF ~auth_required(path) THEN Forward(None, None)
  ELSE IF is_caldav_endpoint(path)
  THEN Respond([Response(401) EXCEPT
                  !.www_authenticate = "Basic realm=\"CalDAV Server\"",
                  !.body = <<"Authentication required">>])
  ELSE IF is_web_route(path)
  THEN Respond([Response(302) EXCEPT !.location = <<"/", "web", "/", "login">>])
  ELSE Respond([Response(401) EXCEPT !.body = <<"Authentication required">>])

\* auth_middleware: Basic credentials that parse are stored and the request
\* goes on; nothing compares them with an account
AfterBasic(req, credentials) ==
  IF credentials # None THEN Forward(None, credentials)
  ELSE Unauthenticated(req.path)

\* auth_middleware: a valid token puts its user into the extensions
AfterToken(req, user_id) ==
  IF user_id # None THEN Forward(user_id, None)
  ELSE AfterBasic(req, BasicOf(req))

\* auth_middleware
auth_middleware(req) == AfterToken(req, UserOfToken(TokenOf(req)))

-----------------------------------------------------------------------------
(* lib.rs: the route table, and the handler call behind it. *)

\* the segments of a request path
Segments(path) == Split(Tail(path), "/")

\* the handler the Router of lib.rs gives a request to: "404" when no route
\* matches the path, "405" when the route has no handler for the method
RouteOf(method, segs) ==
  IF segs = << <<"calendars">> >> \/ segs = << <<"calendars">>, <<>> >>
  THEN "caldav_propfind"
  ELSE IF segs = << <<"calendars">>, <<"new">> >>
  THEN (IF method = "MKCOL" THEN "caldav_mkcol" ELSE "405")
  ELSE IF /\ Len(segs) \in {2, 3}
          /\ segs[1] = <<"calendars">>
          /\ segs[2] # <<>>
  THEN "caldav_get"
  ELSE IF segs = << <<".well-known">>, <<"caldav">> >>
  THEN (IF method = "GET" THEN "caldav_discovery" ELSE "405")
  ELSE IF Len(segs) = 3 /\ segs[1] = <<"api">> /\ segs[2] = <<"users">>
  THEN (IF method = "GET" THEN "get_user_by_id" ELSE "405")
  ELSE IF Len(segs) = 3 /\ segs[1] = <<"api">> /\ segs[2] = <<"calendars">>
  THEN (IF method = "GET" THEN "get_calendar_by_id" ELSE "405")
  ELSE IF Len(segs) = 3 /\ segs[1] = <<"api">> /\ segs[2] = <<"events">>
  THEN (IF method = "GET" THEN "get_event_by_id" ELSE "405")
  ELSE "404"

\* the Router of lib.rs
Route(method, path) == RouteOf(method, Segments(path))

\* the handlers that take the authenticated user from the request
\* extensions (Extension<Uuid>); caldav_discovery takes nothing
NeedsUser(h) ==
  h \notin {"caldav_discovery", "get_user_by_id", "get_calendar_by_id", "get_event_by_id"}

\* the handlers that take the id of the path as Path<Uuid>
TakesPathUuid(h) == h \in {"get_user_by_id", "get_calendar_by_id", "get_event_by_id"}

\* the Path<Uuid> extractor: the last segment of the path
PathUuid(req) == Uuid_parse_str(Segments(req.path)[3])

\* the call of handler h; the outcome is its result and the events table
\* after it
Invoke(h, req, user_id) ==
  CASE h = "caldav_discovery" -> [res |-> caldav_discovery, events |-> events]
    [] h = "caldav_propfind" -> [res |-> caldav_propfind(user_id), events |-> events]
    [] h = "caldav_report" -> [res |-> caldav_report(user_id, req.body), events |-> events]
    [] h = "caldav_get" -> [res |-> caldav_get(user_id, req.path), events |-> events]
    [] h = "caldav_put" -> caldav_put(user_id, req.path, req.body)
    [] h = "caldav_delete" -> caldav_delete(user_id, req.path)
    [] h = "get_user_by_id" ->
         [res |-> rest_get_user_by_id(PathUuid(req)[1]), events |-> events]
    [] h = "get_calendar_by_id" ->
         [res |-> rest_get_calendar_by_id(PathUuid(req)[1]), events |-> events]
    [] h = "get_event_by_id" ->
         [res |-> rest_get_event_by_id(PathUuid(req)[1]), events |-> events]

\* what the server did with a request: the response, the handler whose
\* body ran ("" when none did) and the events table afterwards
Outcome(kind, resp, h, user_id, evs) ==
  [kind |-> kind, resp |-> resp, handler |-> h, user |-> user_id, events |-> evs]

\* the handler ran
Ran(h, user_id, out) ==
  Outcome(out.res.kind, IntoResponse(out.res), h, user_id, out.events)

\* a forwarded request: the router, the extraction of the user, the handler
Routed(req, user_id, h) ==
  IF h = "404" THEN Outcome("NoRoute", Response(404), "", user_id, events)
  ELSE IF h = "405" THEN Outcome("MethodNotAllowed", Response(405), "", user_id, events)
  ELSE IF NeedsUser(h) /\ user_id = None
  THEN Outcome("MissingExtension", Response(500), "", user_id, events)
  ELSE IF TakesPathUuid(h) /\ PathUuid(req) = None
  THEN Outcome("PathRejection", Response(400), "", user_id, events)
  ELSE Ran(h, user_id, Invoke(h, req, IF user_id = None THEN "" ELSE user_id[1]))

\* the middleware's verdict, then the router
Dispatch(req, mw) ==
  IF ~mw.forward THEN Outcome("Middleware", mw.resp, "", None, events)
  ELSE Routed(req, mw.user_id, Route(req.method, req.path))

\* one request through auth_middleware, the router and the handler
Serve(req) == Dispatch(req, auth_middleware(req))

-----------------------------------------------------------------------------
(* The requests of the model. *)

Methods == {"GET", "PUT", "DELETE", "PROPFIND", "REPORT"}

\* the accounts of the users table: the default user of
\* initialize_database and a second registered user
Accounts ==
  {[id |-> "u1", email |-> <<"test@test.com">>, password |-> <<"password123">>],
   [id |-> "u2", email |-> <<"ann@example.org">>, password |-> <<"pw">>]}

\* the token login issues for a user
TokenFor(u) == <<u, "exp:future", jwt_secret>>

\* the Authorization and Cookie headers of the requests
Credentials ==
  {[authorization |-> None, cookie |-> None],
   [authorization |-> Some(<<"Bearer ">> \o TokenFor("u1")), cookie |-> None],
   [authorization |-> Some(<<"Bearer ">> \o TokenFor("u2")), cookie |-> None],
   [authorization |-> Some(<<"Bearer ", "u1", "exp:past", jwt_secret>>), cookie |-> None],
   [authorization |-> Some(<<"Bearer ", "u1", "exp:future", "other key">>), cookie |-> None],
   [authorization |-> Some(<<"Bearer ", "x", "exp:future", jwt_secret>>), cookie |-> None],
   [authorization |-> Some(<<"Bearer ", "garbage">>), cookie |-> None],
   [authorization |-> Some(<<"Basic ", "base64:", "test@test.com", ":", "password123">>),
    cookie |-> None],
   [authorization |-> Some(<<"Basic ", "base64:", "nobody@example.org", ":", "guess">>),
    cookie |-> None],
   [authorization |-> Some(<<"Basic ", "base64:", "test@test.com">>), cookie |-> None],
   [authorization |-> Some(<<"Basic ", "base64:", "\\xFF", ":", "pw">>), cookie |-> None],
   [authorization |-> Some(<<"Basic ", "%%%">>), cookie |-> None],
   [authorization |-> None,
    cookie |-> Some(<<"theme=dark", ";", " ", "auth_token=">> \o TokenFor("u1"))],
   [authorization |-> None,
    cookie |-> Some(<<"auth_token=", "u1", "exp:past", jwt_secret>>)],
   [authorization |-> None, cookie |-> Some(<<"theme=dark">>)],
   [authorization |-> Some(<<"Basic ", "%%%">>),
    cookie |-> Some(<<"auth_token=">> \o TokenFor("u1"))]}

\* the request paths
HttpPaths ==
  {<<"/", "calendars">>, <<"/", "calendars", "/">>,
   <<"/", "calendars", "/", CalUuid(1)>>, CalendarUrl(CalUuid(1)),
   EventUrl(CalUuid(1), EvUuid(1)),
   <<"/", ".well-known", "/", "caldav">>,
   <<"/", "principals", "/">>, <<"/", "public">>,
   <<"/", "api", "/", "users", "/", "u1">>,
   <<"/", "api", "/", "calendars", "/", CalUuid(1)>>,
   <<"/", "api", "/", "events", "/", EvUuid(1)>>,
   <<"/", "api", "/", "events", "/", "x">>}

\* the body sent with a method
BodyOf(method) ==
  IF method = "PUT" THEN BodyStandup
  ELSE IF method = "REPORT"
  THEN <<"<cal:calendar-query>", "<cal:time-range/>", "</cal:calendar-query>">>
  ELSE <<>>

Requests ==
  {[method |-> m, path |-> p, authorization |-> c.authorization, cookie |-> c.cookie,
    body |-> BodyOf(m)] : m \in Methods, p \in HttpPaths, c \in Credentials}

\* the record of a request served over HTTP
Served(req, out) ==
  [op |-> "http", method |-> req.method, authorization |-> req.authorization,
   cookie |-> req.cookie, user |-> out.user, path |-> req.path, body |-> req.body,
   kind |-> out.kind, msg |-> "", resp |-> out.resp, handler |-> out.handler]

\* the store and the record after a request served over HTTP
HttpServed(req, out) ==
  /\ Len(out.events) > Len(events) => nextEv <= MaxEvents
  /\ events' = out.events
  /\ nextEv' = IF Len(out.events) > Len(events) THEN nextEv + 1 ELSE nextEv
  /\ deleted' = IF out.handler = "caldav_delete" /\ out.kind = "Ok"
                THEN deleted \cup {TrimEndMatches(PathParts(req.path)[3], ".ics")[1]}
                ELSE deleted
  /\ last' = Served(req, out)

\* a request arrives at the server of lib.rs
HttpRequest ==
  \E req \in Requests :
    /\ last = Idle
    /\ HttpServed(req, Serve(req))
    /\ UNCHANGED <<calendars, nextCal, codec, task, shares, nextShare, procs>>

NextHttp ==
  \/ Reply
  \/ CreateCalendar
  \/ CreateEvent
  \/ HttpRequest

SpecHttp == Init /\ [][NextHttp]_vars

-----------------------------------------------------------------------------
(* Vocabulary of the properties. *)

\* the rows of a table, as a set
Rows(table) == {table[i] : i \in 1..Len(table)}

\* the identifiers of the rows of a table
Ids(table) == {table[i].id : i \in 1..Len(table)}

\* the stored calendar with identifier c (c \in Ids(calendars))
CalendarOf(c) == CHOOSE r \in Rows(calendars) : r.id = c

\* the stored event with identifier e (e \in Ids(events))
EventOf(e) == CHOOSE r \in Rows(events) : r.id = e

\* the principal of the last request
Principal == last.user[1]

\* the paths that name calendar c as a collection
CollectionPaths(c) == {<<"/", "calendars", "/", c>>, <<"/", "calendars", "/", c, "/">>}

\* the paths that name an event resource e under calendar c
ResourcePath(c, e) == <<"/", "calendars", "/", c, "/", e, ".ics">>

\* the body carries iCalendar data
HasCalendarData(body) == Contains(body, "VCALENDAR") \/ Contains(body, "VEVENT")

-----------------------------------------------------------------------------
\* C1: caldav_get on a path naming calendar C returns calendar data only if
\* the principal owns C or C is public.  A principal who is not the owner
\* of a non-public C gets AuthenticationError (401) and no calendar data.
\* When C is public the access check passes for every principal: the
\* collection and every stored event named under C are returned with 200.
C1_GetAccess ==
  \A c \in Rows(calendars) :
    (/\ last.op = "caldav_get"
     /\ last.path \in CollectionPaths(c.id)
                        \cup {ResourcePath(c.id, e) : e \in EvIds \cup {"x"}})
    => /\ (last.kind = "Ok" \/ HasCalendarData(last.resp.body))
            => (c.user_id = Principal \/ c.is_public)
       /\ (c.user_id # Principal /\ ~c.is_public)
            => /\ last.kind = "AuthenticationError"
               /\ last.resp.status = 401
               /\ ~HasCalendarData(last.resp.body)
               /\ last.resp.etag = <<>>
       /\ c.is_public
            => /\ last.kind # "AuthenticationError"
               /\ (\/ last.path \in CollectionPaths(c.id)
                   \/ \E e \in Ids(events) : last.path = ResourcePath(c.id, e))
                    => /\ last.kind = "Ok"
                       /\ last.resp.status = 200
                       /\ HasCalendarData(last.resp.body)

\* a non-owner was refused an existing event of a non-public calendar
C1_Witness ==
  /\ last.op = "caldav_get"
  /\ last.kind = "AuthenticationError"
  /\ \E e \in Rows(events) :
       /\ last.path = ResourcePath(e.calendar_id, e.id)
       /\ e.calendar_id \in Ids(calendars)
       /\ ~CalendarOf(e.calendar_id).is_public
       /\ CalendarOf(e.calendar_id).user_id # Principal

-----------------------------------------------------------------------------
\* C2: caldav_put on an event path of a calendar the principal does not
\* own, and caldav_delete of an event whose calendar the principal does not
\* own, fail with AuthenticationError whatever the public flag is, and leave
\* the events table as it was.
C2_NonOwnerWriteRefused ==
  [][/\ \A c \in Rows(calendars) :
          (/\ last'.op = "caldav_put"
           /\ last'.path \in {ResourcePath(c.id, e) : e \in EvIds \cup {"x"}}
           /\ c.user_id # last'.user[1])
          => /\ last'.kind = "AuthenticationError"
             /\ last'.resp.status = 401
             /\ events' = events
     /\ \A e \in Rows(events) :
          (/\ last'.op = "caldav_delete"
           /\ \E c \in CalIds : last'.path = ResourcePath(c, e.id)
           /\ e.calendar_id \in Ids(calendars)
           /\ CalendarOf(e.calendar_id).user_id # last'.user[1])
          => /\ last'.kind = "AuthenticationError"
             /\ last'.resp.status = 401
             /\ events' = events]_vars

\* a non-owner's PUT into a public calendar was refused
C2_Witness ==
  /\ last.op = "caldav_put"
  /\ last.kind = "AuthenticationError"
  /\ last.body = BodyStandup
  /\ \E c \in Rows(calendars) :
       /\ last.path \in {ResourcePath(c.id, e) : e \in EvIds}
       /\ c.is_public
       /\ c.user_id # Principal

-----------------------------------------------------------------------------
\* what a 204 from caldav_delete has done: exactly the named event is gone
DeleteRemovesExactlyOne ==
  (last'.op = "caldav_delete" /\ last'.kind = "Ok")
  => \E c \in CalIds, e \in Ids(events) :
       /\ last'.path = ResourcePath(c, e)
       /\ last'.resp.status = 204
       /\ e \notin Ids(events')
       /\ Rows(events') = Rows(events) \ {EventOf(e)}
       /\ Len(events') = Len(events) - 1

\* an event deleted with 204 never comes back, and deleting it again is not-found
DeletedStaysGone ==
  /\ \A e \in deleted' : e \notin Ids(events')
  /\ \A e \in deleted, c \in CalIds :
       (last'.op = "caldav_delete" /\ last'.path = ResourcePath(c, e))
       => /\ last'.kind = "NotFoundError"
          /\ last'.resp.status = 404
          /\ events' = events

\* C3 as stated: after a DELETE of E answered 204, E is no longer stored,
\* no other event was removed, and every later GET for E and every later
\* DELETE of E fails with a not-found error.
C3_AsStated ==
  [][/\ DeleteRemovesExactlyOne
     /\ DeletedStaysGone
     /\ \A e \in deleted, c \in CalIds :
          (last'.op = "caldav_get" /\ last'.path = ResourcePath(c, e))
          => /\ last'.kind = "NotFoundError"
             /\ last'.resp.status = 404]_vars

\* C3 as amended: after a DELETE of E answered 204, E is no longer stored,
\* no other event was removed, every later DELETE of E fails with a
\* not-found error, and no later GET for E returns data: it fails with a
\* not-found error, unless the calendar named in its path exists, is not
\* public and is not the requester's, in which case it fails with the
\* authorization error of the access check, which comes first.
C3_DeleteThenGone ==
  [][/\ DeleteRemovesExactlyOne
     /\ DeletedStaysGone
     /\ \A e \in deleted, c \in CalIds :
          (last'.op = "caldav_get" /\ last'.path = ResourcePath(c, e))
          => /\ ~HasCalendarData(last'.resp.body)
             /\ IF /\ c \in Ids(calendars)
                   /\ CalendarOf(c).user_id # last'.user[1]
                   /\ ~CalendarOf(c).is_public
                THEN last'.kind = "AuthenticationError" /\ last'.resp.status = 401
                ELSE last'.kind = "NotFoundError" /\ last'.resp.status = 404]_vars

\* the owner asks for an event deleted before, in its calendar, and gets
\* "Event not found" while another event is still stored
C3_Witness ==
  /\ last.op = "caldav_get"
  /\ last.kind = "NotFoundError"
  /\ last.msg = "Event not found"
  /\ events # <<>>
  /\ \E e \in deleted, c \in Rows(calendars) :
       /\ last.path = ResourcePath(c.id, e)
       /\ c.user_id = Principal

-----------------------------------------------------------------------------
-----------------------------------------------------------------------------
(* Reading a response body back. *)

\* the positions of token t in a body
Positions(body, t) == {i \in 1..Len(body) : body[i] = t}

\* the text from position i + 1 up to the next token t
TextUpTo(body, i, t) ==
  LET j == CHOOSE k \in (i + 1)..Len(body) :
             body[k] = t /\ \A m \in (i + 1)..(k - 1) : body[m] # t
  IN SubSeq(body, i + 1, j - 1)

\* the <d:response> blocks of a multistatus body
ResponseBlocks(body) ==
  {TextUpTo(body, i, "</d:response>") : i \in Positions(body, "<d:response>")}

\* the text of the one element `open` ... `close` of a block
Element(block, open, close) ==
  TextUpTo(block, CHOOSE i \in Positions(block, open) : TRUE, close)

\* the UID values of the VEVENT blocks of an iCalendar document
EventUids(body) ==
  {body[i + 2] : i \in {k \in Positions(body, "UID") : k + 2 <= Len(body) /\ body[k + 1] = ":"}}

\* the number of VEVENT blocks of an iCalendar document
EventBlocks(body) ==
  Cardinality({k \in Positions(body, "BEGIN") :
                 k + 2 <= Len(body) /\ body[k + 1] = ":" /\ body[k + 2] = "VEVENT"})

\* the calendars the principal u owns
OwnedCalendars(u) == {c \in Rows(calendars) : c.user_id = u}

\* the events of the calendars the principal u owns
OwnedEvents(u) ==
  {e \in Rows(events) : \E c \in OwnedCalendars(u) : c.id = e.calendar_id}

-----------------------------------------------------------------------------
\* C8: caldav_propfind answers 207 with exactly one <d:response> block per
\* calendar the principal owns, whose href is /calendars/{calendar id}/,
\* and no block for a calendar of another principal, public or not.
C8_PropfindOwnedCalendars ==
  last.op = "caldav_propfind"
  => /\ last.kind = "Ok"
     /\ last.resp.status = 207
     /\ Cardinality(Positions(last.resp.body, "<d:response>"))
          = Cardinality(OwnedCalendars(Principal))
     /\ Cardinality(Positions(last.resp.body, "</d:response>"))
          = Cardinality(OwnedCalendars(Principal))
     /\ \A b \in ResponseBlocks(last.resp.body) :
          Cardinality(Positions(b, "<d:href>")) = 1
     /\ {Element(b, "<d:href>", "</d:href>") : b \in ResponseBlocks(last.resp.body)}
          = {<<"/", "calendars", "/", c.id, "/">> : c \in OwnedCalendars(Principal)}

\* a PROPFIND by a principal who owns one calendar while another principal
\* owns a public one
C8_Witness ==
  /\ last.op = "caldav_propfind"
  /\ Cardinality(OwnedCalendars(Principal)) = 1
  /\ \E c \in Rows(calendars) : c.user_id # Principal /\ c.is_public

-----------------------------------------------------------------------------
\* C9: caldav_report answers 207 with exactly one <d:response> per event of
\* the calendars the principal owns and none for any other event; each
\* carries href /calendars/{calendar id}/{event id}.ics and the quoted event
\* identifier as ETag; the response is the same for every request body.
C9_ReportOwnedEvents ==
  last.op = "caldav_report"
  => /\ last.kind = "Ok"
     /\ last.resp.status = 207
     /\ Cardinality(Positions(last.resp.body, "<d:response>"))
          = Cardinality(OwnedEvents(Principal))
     /\ Cardinality(Positions(last.resp.body, "</d:response>"))
          = Cardinality(OwnedEvents(Principal))
     /\ \A b \in ResponseBlocks(last.resp.body) :
          /\ Cardinality(Positions(b, "<d:href>")) = 1
          /\ Cardinality(Positions(b, "<d:getetag>")) = 1
     /\ {<<Element(b, "<d:href>", "</d:href>"), Element(b, "<d:getetag>", "</d:getetag>")>> :
            b \in ResponseBlocks(last.resp.body)}
          = {<<ResourcePath(e.calendar_id, e.id), <<"\"", e.id, "\"">> >> :
               e \in OwnedEvents(Principal)}
     /\ \A body \in ReportBodies :
          IntoResponse(caldav_report(Principal, body)) = last.resp

\* a REPORT carrying a filter, by a principal who owns an event while
\* another principal owns an event too
C9_Witness ==
  /\ last.op = "caldav_report"
  /\ last.body # <<>>
  /\ OwnedEvents(Principal) # {}
  /\ Rows(events) \ OwnedEvents(Principal) # {}

-----------------------------------------------------------------------------
\* what a permitted GET on a collection path returns: one VCALENDAR
\* document with one VEVENT per event of the calendar and no other VEVENT
CollectionGetReturnsCalendar ==
  \A c \in Rows(calendars) :
    (/\ last.op = "caldav_get"
     /\ last.path \in CollectionPaths(c.id)
     /\ (c.user_id = Principal \/ c.is_public))
    => /\ last.kind = "Ok"
       /\ last.resp.status = 200
       /\ Cardinality(Positions(last.resp.body, "VCALENDAR")) = 2
       /\ EventBlocks(last.resp.body)
            = Cardinality({e \in Rows(events) : e.calendar_id = c.id})
       /\ EventUids(last.resp.body)
            = {e.id : e \in {x \in Rows(events) : x.calendar_id = c.id}}

\* a GET naming a calendar that is not stored fails with not-found
MissingCalendarNotFound ==
  \A c \in CalIds \ Ids(calendars) :
    (/\ last.op = "caldav_get"
     /\ last.path \in CollectionPaths(c) \cup {ResourcePath(c, e) : e \in EvIds})
    => last.kind = "NotFoundError" /\ last.resp.status = 404

\* C10 as stated: a permitted GET on a collection path returns one
\* VCALENDAR with one VEVENT per event of the calendar and none of another
\* calendar; a GET naming a calendar or an event that does not exist fails
\* with a not-found error.
C10_AsStated ==
  /\ CollectionGetReturnsCalendar
  /\ MissingCalendarNotFound
  /\ \A c \in CalIds, e \in EvIds \ Ids(events) :
       (last.op = "caldav_get" /\ last.path = ResourcePath(c, e))
       => last.kind = "NotFoundError" /\ last.resp.status = 404

\* C10 as amended: the same, except that a GET naming an event that does
\* not exist fails with a not-found error only when the calendar named in
\* the path does not exist or may be read by the requester (owner, or
\* public); under an existing non-public calendar of another principal it
\* fails with the authorization error of the access check, which comes first.
C10_CollectionAndNotFound ==
  /\ CollectionGetReturnsCalendar
  /\ MissingCalendarNotFound
  /\ \A c \in CalIds, e \in EvIds \ Ids(events) :
       (last.op = "caldav_get" /\ last.path = ResourcePath(c, e))
       => IF /\ c \in Ids(calendars)
             /\ CalendarOf(c).user_id # Principal
             /\ ~CalendarOf(c).is_public
          THEN last.kind = "AuthenticationError" /\ last.resp.status = 401
          ELSE last.kind = "NotFoundError" /\ last.resp.status = 404

\* a non-owner reads a public calendar that holds an event while another
\* calendar holds another event
C10_Witness ==
  /\ last.op = "caldav_get"
  /\ last.kind = "Ok"
  /\ \E c \in Rows(calendars) :
       /\ last.path \in CollectionPaths(c.id)
       /\ c.user_id # Principal
       /\ \E e \in Rows(events) : e.calendar_id = c.id
       /\ \E e \in Rows(events) : e.calendar_id # c.id

-----------------------------------------------------------------------------
(* Claims about requests over HTTP, under SpecHttp. *)

\* the request was answered by the body of handler h
Reached(h) == last.handler = h

\* the path of an event resource: /calendars/{cal}/{event}.ics
IsEventResource(path) ==
  /\ Len(Segments(path)) = 3
  /\ Segments(path)[1] = <<"calendars">>
  /\ Len(Segments(path)[2]) = 1
  /\ EndsWith(Segments(path)[3], <<".ics">>)

\* C4: a request is answered by the CalDAV handler of its verb.  On an
\* event resource a GET that reaches a handler reaches caldav_get, a PUT
\* caldav_put and a DELETE caldav_delete; on /calendars and /calendars/ a
\* PROPFIND reaches caldav_propfind and a REPORT caldav_report.
C4_DispatchByVerb ==
  (last.op = "http" /\ last.handler # "")
  => /\ IsEventResource(last.path)
        => /\ last.method = "GET" => Reached("caldav_get")
           /\ last.method = "PUT" => Reached("caldav_put")
           /\ last.method = "DELETE" => Reached("caldav_delete")
     /\ last.path \in {<<"/", "calendars">>, <<"/", "calendars", "/">>}
        => /\ last.method = "PROPFIND" => Reached("caldav_propfind")
           /\ last.method = "REPORT" => Reached("caldav_report")

\* the protected CalDAV paths: /calendars..., /dav..., /principals...
IsProtectedCalDav(path) ==
  \/ StartsWith(path, <<"/", "calendars">>)
  \/ StartsWith(path, <<"/", "dav">>)
  \/ StartsWith(path, <<"/", "principals">>)

\* the text is a token the server issued for one of its users and that has
\* not expired
IsValidToken(token) ==
  \E a \in Accounts : token = <<a.id, "exp:future", jwt_secret>>

\* the request carries a valid token, as a Bearer header or in the
\* auth_token cookie, or the Basic credentials of an account
IdentifiesUser(authorization, cookie) ==
  \/ /\ authorization # None
     /\ \/ /\ authorization[1][1] = "Bearer "
           /\ IsValidToken(Tail(authorization[1]))
        \/ \E a \in Accounts :
             authorization[1] = <<"Basic ", "base64:">> \o a.email \o <<":">> \o a.password
  \/ /\ cookie # None
     /\ \E i \in 1..Len(cookie[1]) :
          /\ cookie[1][i] = "auth_token="
          /\ IsValidToken(SubSeq(cookie[1], i + 1, Len(cookie[1])))

\* C6: a request to a protected CalDAV path that carries no credentials, or
\* credentials that identify no user, is answered 401 with a
\* WWW-Authenticate: Basic challenge, and no handler runs.
C6_ChallengeWithoutUser ==
  (/\ last.op = "http"
   /\ IsProtectedCalDav(last.path)
   /\ ~IdentifiesUser(last.authorization, last.cookie))
  => /\ last.resp.status = 401
     /\ last.resp.www_authenticate = "Basic realm=\"CalDAV Server\""
     /\ last.handler = ""

\* C7: a GET of /.well-known/caldav that carries no credentials at all is
\* answered 200 with the plain-text body /calendars/.
C7_DiscoveryWithoutCredentials ==
  (/\ last.op = "http"
   /\ last.method = "GET"
   /\ last.path = <<"/", ".well-known", "/", "caldav">>
   /\ last.authorization = None
   /\ last.cookie = None)
  => /\ last.resp.status = 200
     /\ last.resp.content_type = "text/plain"
     /\ last.resp.body = <<"/", "calendars", "/">>

-----------------------------------------------------------------------------
(* The iCalendar codec on its own: models.rs encodes, handlers.rs decodes. *)

MaxTitle == 2

\* the characters of the texts: an ordinary one, the four that
\* escape_ical_text replaces, and a blank
TextChars == {"a", ";", ",", "\\", "\n", " "}

\* the texts of at most MaxTitle characters
Texts == UNION {[1..n -> TextChars] : n \in 0..MaxTitle}

\* the start and end of the events
Spans ==
  {[start_time |-> <<2024, 3, 1, 9, 0, 0>>, end_time |-> <<2024, 3, 1, 9, 15, 0>>],
   [start_time |-> <<1999, 12, 31, 23, 59, 59>>, end_time |-> <<2000, 1, 1, 0, 0, 0>>]}

\* the Event rows given to the encoder
CodecEvents ==
  {[id |-> EvUuid(1), calendar_id |-> CalUuid(1), title |-> t, description |-> d,
    location |-> l, start_time |-> sp.start_time, end_time |-> sp.end_time,
    is_all_day |-> ad] :
     t \in Texts, d \in {None, Some(<<"d">>)}, l \in {None, Some(<<"H", "Q">>)},
     sp \in Spans, ad \in BOOLEAN}

\* the value the codec works on: the operation done last, the event given
\* to the encoder, the text written or read, and the result of the decoder
Codec(op, event, text, result) ==
  [op |-> op, event |-> event, text |-> text, result |-> result]

\* an event waits for ICalendarEvent::from(&event).to_ical_string()
EventGiven(event) == Codec("event", Some(event), <<>>, None)

\* a text waits for escape_ical_text
TextGiven(text) == Codec("text", None, text, None)

\* ICalendarEvent::from(&event).to_ical_string()
Encode ==
  /\ codec.op = "event"
  /\ codec' = Codec("to_ical_string", codec.event, to_ical_string(codec.event[1]), None)
  /\ UNCHANGED <<calendars, events, nextCal, nextEv, last, deleted, task, shares, nextShare, procs>>

\* parse_icalendar of the text the encoder wrote
DecodeEncoded ==
  /\ codec.op = "to_ical_string"
  /\ codec' = Codec("round_trip", codec.event, codec.text, Some(parse_icalendar(codec.text)))
  /\ UNCHANGED <<calendars, events, nextCal, nextEv, last, deleted, task, shares, nextShare, procs>>

\* escape_ical_text of a text
Escape ==
  /\ codec.op = "text"
  /\ codec' = Codec("escape_ical_text", None, codec.text, Some(escape_ical_text(codec.text)))
  /\ UNCHANGED <<calendars, events, nextCal, nextEv, last, deleted, task, shares, nextShare, procs>>

\* a date YYYYMMDD as text
DateText(y, m, d) == Pad(y, 4) \o Pad(m, 2) \o Pad(d, 2)

\* the values written after DTSTART in the bodies given to the decoder: a
\* DATE, a UTC date-time, a floating date-time, a date with month 13, a
\* Z-terminated value of 5 characters, and letters
StartValues ==
  {DateText(2024, 1, 15),
   FormatDateTime(<<2024, 1, 15, 9, 30, 0>>),
   SubSeq(FormatDateTime(<<2024, 1, 15, 9, 30, 0>>), 1, 15),
   DateText(2024, 13, 15),
   <<"2", "0", "2", "4", "Z">>,
   <<"x", "y", "z">>}

\* the parameters written between DTSTART and the colon
StartParams == {<<>>, <<";", "VALUE=DATE">>, <<";", "TZID=Europe/Berlin">>}

\* the DTSTART lines of the bodies, and no line at all
StartLines ==
  {None} \cup {Some(<<"DTSTART">> \o p \o <<":">> \o v) : p \in StartParams, v \in StartValues}

\* the DTEND lines of the bodies, and no line at all
EndLines ==
  {None, Some(<<"DTEND", ":">> \o DateText(2024, 1, 16)),
   Some(<<"DTEND", ":">> \o FormatDateTime(<<2024, 1, 15, 10, 0, 0>>)),
   Some(<<"DTEND", ":", "x", "y", "z">>)}

\* the SUMMARY lines of the bodies, and no line at all
SummaryLines == {None, Some(<<"SUMMARY", ":", "S">>)}

\* a line of a body with its CRLF, nothing for a line left out
LineText(line) == IF line = None THEN <<>> ELSE line[1] \o CRLF

\* a VEVENT body of the given lines
CodecBody(summary, start, end) ==
  <<"BEGIN", ":", "VEVENT">> \o CRLF
    \o LineText(summary) \o LineText(start) \o LineText(end)
    \o <<"END", ":", "VEVENT">> \o CRLF

\* the bodies given to the decoder
CodecBodies ==
  {CodecBody(su, st, en) : su \in SummaryLines, st \in StartLines, en \in EndLines}

\* a request body waits for parse_icalendar
BodyGiven(text) == Codec("body", None, text, None)

\* parse_icalendar of a request body
DecodeBody ==
  /\ codec.op = "body"
  /\ codec' = Codec("parse_icalendar", None, codec.text, Some(parse_icalendar(codec.text)))
  /\ UNCHANGED <<calendars, events, nextCal, nextEv, last, deleted, task, shares, nextShare, procs>>

InitCodec ==
  /\ calendars = <<>>
  /\ events = <<>>
  /\ nextCal = 1
  /\ nextEv = 1
  /\ last = Idle
  /\ deleted = {}
  /\ task = NoTask
  /\ shares = <<>>
  /\ nextShare = 1
  /\ procs = NoProcs
  /\ codec \in {EventGiven(e) : e \in CodecEvents}
                 \cup {BodyGiven(b) : b \in CodecBodies}
                 \cup {TextGiven(t) : t \in Texts}

NextCodec ==
  \/ Encode
  \/ DecodeEncoded
  \/ DecodeBody
  \/ Escape

SpecCodec == InitCodec /\ [][NextCodec]_vars

-----------------------------------------------------------------------------
(* caldav_propfind and caldav_report one data-access call at a time.  Every *)
(* `.await?` on a service call is a step that either gives its rows or      *)
(* fails with sqlx::Error; `task` is the handler's position (pc), its       *)
(* locals (cals, the loop index i, evs, responses), the number of service   *)
(* calls made so far (reads) and the value it returns (result).             *)

Task(op, user, body) ==
  [op |-> op, user |-> user, body |-> body, pc |-> "calendars",
   cals |-> <<>>, i |-> 1, evs |-> <<>>, responses |-> <<>>, reads |-> 0,
   result |-> None]

\* the failed call swallowed: the loop is left and what was assembled so
\* far is returned
Failed_Swallowed(t) == [t EXCEPT !.reads = @ + 1, !.pc = "format"]

\* `?` on Err(sqlx::Error): From<sqlx::Error> for AppError, and the return
Failed(t) ==
  [t EXCEPT !.reads = @ + 1, !.pc = "return",
            !.result = Some(Err("DatabaseError", "sqlx::Error"))]

\* where the handler goes after the calendars are read, or after the blocks
\* of calendar i - 1 are pushed: into the loop body, or past the loop
LoopOrFormat(t, i) ==
  IF i <= Len(t.cals)
  THEN (IF t.op = "caldav_report" THEN "events" ELSE "push")
  ELSE "format"

\* format!(multistatus, responses) and the 207 response
Multistatus(responses) ==
  Ok([Response(207) EXCEPT
        !.content_type = "application/xml; charset=utf-8",
        !.body = MultistatusOpen \o responses \o MultistatusClose])

\* the handler is called
BeginReads ==
  \E op \in {"caldav_propfind", "caldav_report"}, u \in Users, body \in ReportBodies :
    /\ last = Idle
    /\ task = NoTask
    /\ op = "caldav_propfind" => body = <<>>
    /\ task' = Task(op, u, body)
    /\ UNCHANGED <<calendars, events, nextCal, nextEv, last, deleted, codec, shares, nextShare, procs>>

\* service.get_calendars_by_user_id(user_id).await gives the rows
ReadCalendars ==
  /\ task.op # "none"
  /\ task.pc = "calendars"
  /\ LET t == [task EXCEPT !.cals = get_calendars_by_user_id(task.user), !.reads = @ + 1]
     IN task' = [t EXCEPT !.pc = LoopOrFormat(t, 1)]
  /\ UNCHANGED <<calendars, events, nextCal, nextEv, last, deleted, codec, shares, nextShare, procs>>

\* service.get_events_by_calendar_id(calendar.id).await gives the rows
ReadEvents ==
  /\ task.op # "none"
  /\ task.pc = "events"
  /\ task' = [task EXCEPT !.evs = get_events_by_calendar_id(task.cals[task.i].id),
                          !.reads = @ + 1, !.pc = "push"]
  /\ UNCHANGED <<calendars, events, nextCal, nextEv, last, deleted, codec, shares, nextShare, procs>>

\* the service call fails
ReadFails ==
  /\ task.op # "none"
  /\ task.pc \in {"calendars", "events"}
  /\ task' = Failed(task)
  /\ UNCHANGED <<calendars, events, nextCal, nextEv, last, deleted, codec, shares, nextShare, procs>>

\* responses.push_str: the block of calendar i (PROPFIND), the blocks of
\* the events of calendar i (REPORT); then the next turn of the loop
PushResponses ==
  /\ task.op # "none"
  /\ task.pc = "push"
  /\ LET blocks ==
           IF task.op = "caldav_propfind"
           THEN PropfindResponse(task.cals[task.i])
           ELSE Concat([j \in 1..Len(task.evs) |->
                          ReportResponse(task.cals[task.i], task.evs[j])])
     IN task' = [task EXCEPT !.responses = @ \o blocks, !.i = @ + 1, !.evs = <<>>,
                             !.pc = LoopOrFormat(task, task.i + 1)]
  /\ UNCHANGED <<calendars, events, nextCal, nextEv, last, deleted, codec, shares, nextShare, procs>>

\* the loop is over: the document is formatted and wrapped in Ok
FormatBody ==
  /\ task.op # "none"
  /\ task.pc = "format"
  /\ task' = [task EXCEPT !.pc = "return", !.result = Some(Multistatus(task.responses))]
  /\ UNCHANGED <<calendars, events, nextCal, nextEv, last, deleted, codec, shares, nextShare, procs>>

\* the handler returns its Result
ReturnResult ==
  /\ task.op # "none"
  /\ task.pc = "return"
  /\ last' = Handled(task.op, task.user, <<"/", "calendars">>, task.body, task.result[1])
  /\ task' = [task EXCEPT !.pc = "done"]
  /\ UNCHANGED <<calendars, events, nextCal, nextEv, deleted, codec, shares, nextShare, procs>>

\* the handler's frame is dropped
DropTask ==
  /\ task.op # "none"
  /\ task.pc = "done"
  /\ task' = NoTask
  /\ UNCHANGED <<calendars, events, nextCal, nextEv, last, deleted, codec, shares, nextShare, procs>>

NextReads ==
  \/ (task = NoTask /\ CreateCalendar)
  \/ (task = NoTask /\ CreateEvent)
  \/ Reply
  \/ BeginReads
  \/ ReadCalendars
  \/ ReadEvents
  \/ ReadFails
  \/ PushResponses
  \/ FormatBody
  \/ ReturnResult
  \/ DropTask

SpecReads == Init /\ [][NextReads]_vars

-----------------------------------------------------------------------------
\* C11: decoding the VEVENT text the encoder wrote for an event gives a
\* draft whose title, description, location, start and end are the event's.
C11_RoundTrip ==
  codec.op = "round_trip"
  => /\ codec.result[1].kind = "Ok"
     /\ codec.result[1].value[1].title = codec.event[1].title
     /\ codec.result[1].value[1].description = codec.event[1].description
     /\ codec.result[1].value[1].location = codec.event[1].location
     /\ codec.result[1].value[1].start_time = codec.event[1].start_time
     /\ codec.result[1].value[1].end_time = codec.event[1].end_time

-----------------------------------------------------------------------------
\* the characters the escaping claims speak of: ordinary ones and the
\* four that escape_ical_text replaces
IsPlainOrEscaped(text) ==
  \A i \in 1..Len(text) : text[i] \in {"a", ";", ",", "\\", "\n"}

\* C12: for a title of ordinary characters and ';', ',', '\' and newline,
\* decoding the VEVENT block the encoder wrote recovers exactly the title.
C12_TitleRoundTrip ==
  (codec.op = "round_trip" /\ IsPlainOrEscaped(codec.event[1].title))
  => /\ codec.result[1].kind = "Ok"
     /\ codec.result[1].value[1].title = codec.event[1].title

-----------------------------------------------------------------------------
\* a body with a SUMMARY line, the given DTSTART line and a DTEND line
BodyStarting(start) ==
  CodecBody(Some(<<"SUMMARY", ":", "S">>), Some(start),
            Some(<<"DTEND", ":">> \o DateText(2024, 1, 16)))

\* the decoder returned a draft that starts at the instant t
StartsAt(t) ==
  /\ codec.result[1].kind = "Ok"
  /\ codec.result[1].value[1].start_time = t

\* the plain forms of the start line: a DATE is midnight UTC of the date, a
\* UTC date-time is its instant, and the value is the text after the last
\* colon, whatever parameters stand before it
PlainStartForms ==
  /\ codec.text = BodyStarting(<<"DTSTART", ":">> \o DateText(2024, 1, 15))
       => StartsAt(<<2024, 1, 15, 0, 0, 0>>)
  /\ codec.text = BodyStarting(<<"DTSTART", ":">> \o FormatDateTime(<<2024, 1, 15, 9, 30, 0>>))
       => StartsAt(<<2024, 1, 15, 9, 30, 0>>)
  /\ codec.text = BodyStarting(<<"DTSTART", ";", "TZID=Europe/Berlin", ":">>
                                 \o FormatDateTime(<<2024, 1, 15, 9, 30, 0>>))
       => StartsAt(<<2024, 1, 15, 9, 30, 0>>)

\* C13: DTSTART:YYYYMMDD decodes to midnight UTC of the date,
\* DTSTART:YYYYMMDDTHHMMSSZ to that instant, and
\* DTSTART;VALUE=DATE:YYYYMMDD to the instant of the plain DATE form with
\* the all-day flag of the draft set; the value is the text after the last
\* colon of the line.
C13_StartForms ==
  codec.op = "parse_icalendar"
  => /\ PlainStartForms
     /\ codec.text = BodyStarting(<<"DTSTART", ";", "VALUE=DATE", ":">> \o DateText(2024, 1, 15))
          => /\ StartsAt(<<2024, 1, 15, 0, 0, 0>>)
             /\ codec.result[1].value[1].is_all_day = TRUE

-----------------------------------------------------------------------------
\* the body has a line that starts with the property name
HasLine(text, name) == \E i \in 1..Len(Lines(text)) : StartsWith(Lines(text)[i], <<name>>)

\* the body has a DTSTART or DTEND line whose value is in no form of a
\* date or date-time: a date with month 13, or letters
HasMalformedValue(text) ==
  \E i \in 1..Len(Lines(text)) :
    /\ StartsWith(Lines(text)[i], <<"DTSTART">>) \/ StartsWith(Lines(text)[i], <<"DTEND">>)
    /\ \/ EndsWith(Lines(text)[i], <<":">> \o DateText(2024, 13, 15))
       \/ EndsWith(Lines(text)[i], <<":", "x", "y", "z">>)

\* C14: for every body the decoder returns a draft or a validation error
\* and ends in no other way; it returns a validation error whenever the
\* SUMMARY, DTSTART or DTEND line is missing or a DTSTART/DTEND value has
\* not the form of its branch.
C14_DraftOrValidationError ==
  codec.op = "parse_icalendar"
  => /\ codec.result[1].kind \in {"Ok", "ValidationError"}
     /\ (\/ ~HasLine(codec.text, "SUMMARY")
         \/ ~HasLine(codec.text, "DTSTART")
         \/ ~HasLine(codec.text, "DTEND")
         \/ HasMalformedValue(codec.text))
        => codec.result[1].kind = "ValidationError"

-----------------------------------------------------------------------------
\* the number of segments of a path that starts with one '/'
SegmentCount(path) == Cardinality({i \in 2..Len(path) : path[i] = "/"}) + 1

\* C15: a GET on a path of fewer than 2 segments fails with a validation
\* error; a PUT or DELETE on a path of fewer than 3 segments fails with the
\* validation error "Invalid event path" whatever the store holds, whoever
\* asks and whatever the body is; /calendars/{id}/{x}.ics names the event x.
C15_PathResolution ==
  /\ [](/\ (last.op = "caldav_get" /\ SegmentCount(last.path) < 2)
             => last.kind = "ValidationError" /\ last.resp.status = 400
        /\ (last.op \in {"caldav_put", "caldav_delete"} /\ SegmentCount(last.path) < 3)
             => /\ last.kind = "ValidationError"
                /\ last.msg = "Invalid event path"
                /\ last.resp.status = 400
        /\ (last.op = "caldav_get" /\ Len(last.path) = 7 /\ last.path[7] = ".ics")
             => /\ last.kind = "Ok"
                  => /\ last.path[6] \in Ids(events)
                     /\ last.resp.etag = <<"\"", last.path[6], "\"">>
                /\ (/\ last.path[6] \in Ids(events)
                    /\ last.path[4] \in Ids(calendars)
                    /\ CalendarOf(last.path[4]).user_id = Principal)
                     => last.kind = "Ok")
  /\ [][/\ (last'.op \in {"caldav_put", "caldav_delete"} /\ SegmentCount(last'.path) < 3)
             => events' = events
        /\ (last'.op = "caldav_delete" /\ last'.kind = "Ok")
             => /\ Len(last'.path) = 7
                /\ last'.path[7] = ".ics"
                /\ last'.path[6] \in Ids(events)
                /\ events' = SelectSeq(events, LAMBDA x : x.id # last'.path[6])]_vars

\* the owner of a calendar PUTs a complete event on the two-segment path of
\* the calendar and is stopped at the path, while the store holds an event
C15_Witness ==
  /\ last.op = "caldav_put"
  /\ last.kind = "ValidationError"
  /\ last.msg = "Invalid event path"
  /\ last.body = BodyStandup
  /\ events # <<>>
  /\ \E c \in Rows(calendars) :
       /\ last.path = <<"/", "calendars", "/", c.id>>
       /\ c.user_id = Principal

-----------------------------------------------------------------------------
\* the error kinds a CalDAV handler returns, each with its status
ErrorStatus ==
  [ValidationError |-> 400, UuidError |-> 400, AuthenticationError |-> 401,
   NotFoundError |-> 404, DatabaseError |-> 500]

\* the answered request ended in a success response
IsSuccess == last.kind = "Ok" /\ last.resp.status \in 200..299

\* the answered request ended in one typed error, answered with its status
IsTypedError ==
  /\ last.kind \in DOMAIN ErrorStatus
  /\ last.resp.status = ErrorStatus[last.kind]
  /\ last.resp.status = StatusOf(last.kind)

\* C16: every handler outcome is a success response or exactly one typed
\* error, and the error kinds have fixed statuses: validation 400, UUID parse
\* 400 (a kind of its own), authentication 401, not-found 404, database 500.
C16_TypedOutcome ==
  last.op # "none" => (IsSuccess /\ ~IsTypedError) \/ (IsTypedError /\ ~IsSuccess)

\* the same for every outcome that is a returned value
ReturnedOutcomeTyped ==
  (last.op # "none" /\ last.kind # "Panic")
    => (IsSuccess /\ ~IsTypedError) \/ (IsTypedError /\ ~IsSuccess)

-----------------------------------------------------------------------------
\* the five entities of escape_xml
Entities ==
  {<<"&", "a", "m", "p", ";">>, <<"&", "l", "t", ";">>, <<"&", "g", "t", ";">>,
   <<"&", "q", "u", "o", "t", ";">>, <<"&", "a", "p", "o", "s", ";">>}

\* no raw XML special character in a text: none of < > " ', and every &
\* opens one of the five entities
IsEscapedText(text) ==
  \A i \in 1..Len(text) :
    /\ text[i] \notin {"<", ">", "\"", "'"}
    /\ text[i] = "&"
         => \E e \in Entities :
              /\ i + Len(e) - 1 <= Len(text)
              /\ SubSeq(text, i, i + Len(e) - 1) = e

\* the iCalendar payload of every REPORT block is escaped
ReportPayloadEscaped ==
  last.op = "caldav_report"
    => \A b \in ResponseBlocks(last.resp.body) :
         IsEscapedText(Element(b, "<cal:calendar-data>", "</cal:calendar-data>"))

\* C17: in every multistatus body of PROPFIND and REPORT the text put into
\* an element (the display name of a calendar, the iCalendar payload of an
\* event) carries none of & < > " ' raw: each is replaced by its entity.
C17_ElementTextEscaped ==
  /\ last.op = "caldav_propfind"
       => \A b \in ResponseBlocks(last.resp.body) :
            IsEscapedText(Element(b, "<d:displayname>", "</d:displayname>"))
  /\ ReportPayloadEscaped

-----------------------------------------------------------------------------
\* the service calls the running handler needs: the owned calendars and,
\* for REPORT, the events of each of them
RequiredReads ==
  IF task.op = "caldav_report" THEN 1 + Len(task.cals) ELSE 1

\* every required service call has been made and has given its rows
AllReadsSucceeded ==
  /\ task.pc # "calendars"
  /\ task.reads = RequiredReads
  /\ task.result = None \/ task.result[1].kind = "Ok"

\* the handler has ended with the error of a failed service call
ReadFailed ==
  /\ task.result # None
  /\ task.result[1].kind # "Ok"

\* the error of a failed call is what the handler returns, and the client
\* gets no multistatus text: status 500 and the JSON error body
FailureIsReturned ==
  ReadFailed
    => /\ task.pc \in {"return", "done"}
       /\ task.result[1].kind = "DatabaseError"
       /\ IntoResponse(task.result[1]).status = 500
       /\ \A k \in 1..Len(IntoResponse(task.result[1]).body) :
            IntoResponse(task.result[1]).body[k]
              \notin {"<d:multistatus>", "<d:response>", "</d:multistatus>"}
       /\ task.pc = "done" /\ last.op = task.op
            => last.kind = "DatabaseError" /\ last.resp = IntoResponse(task.result[1])

\* a step in which a service call fails ends the handler's work: no call
\* follows it and nothing more is assembled
FailureEndsHandler ==
  /\ (task.op # "none" /\ task'.op # "none" /\ task.result = None
        /\ task'.result # None /\ task'.result[1].kind # "Ok")
       => /\ task'.pc = "return"
          /\ task'.reads = task.reads + 1
          /\ task'.responses = task.responses
  /\ (task.op # "none" /\ task'.op # "none" /\ task.result # None)
       => /\ task'.reads = task.reads
          /\ task'.responses = task.responses
          /\ task'.result = task.result

\* a multistatus document exists only when every required call has given
\* its rows, and it is the whole document: that of the handler run at once
WholeDocumentOnly ==
  /\ task.pc = "format" => AllReadsSucceeded
  /\ (task.result # None /\ task.result[1].kind = "Ok")
       => /\ AllReadsSucceeded
          /\ task.result[1]
               = IF task.op = "caldav_report"
                 THEN caldav_report(task.user, task.body)
                 ELSE caldav_propfind(task.user)

\* no service call is made twice
NoRetry == task.reads <= RequiredReads

\* what is assembled while calls are outstanding: PROPFIND assembles after
\* its one call; REPORT has assembled the blocks of calendars 1..i-1 when it
\* reads the events of calendar i
AssembledBetweenReads ==
  (task.responses # <<>> /\ task.result = None)
    => /\ task.reads >= 1
       /\ task.op = "caldav_propfind" => AllReadsSucceeded
       /\ task.op = "caldav_report"
            => task.reads \in {task.i - 1, task.i, task.i + 1}

\* C18 as stated: PROPFIND and REPORT start assembling the multistatus body
\* only after all required reads (the owned calendars and, for REPORT, the
\* events of every owned calendar) have succeeded; a failed read is
\* returned at once, without retry and without a multistatus body.
C18_AsStated ==
  task.op # "none"
    => /\ task.responses # <<>> => AllReadsSucceeded
       /\ WholeDocumentOnly
       /\ FailureIsReturned
       /\ NoRetry

\* C18: PROPFIND and REPORT produce no partial responses: a multistatus
\* document is formatted and returned only after every required read has
\* succeeded, and it is the whole document; REPORT assembles the blocks of
\* one calendar's events before it reads the events of the next calendar; a
\* failed read ends the handler at once with that error, no read is made
\* twice, and no multistatus text reaches the client.
C18_NoPartialResponse ==
  /\ [](task.op # "none"
          => /\ WholeDocumentOnly
             /\ FailureIsReturned
             /\ NoRetry
             /\ AssembledBetweenReads)
  /\ [][FailureEndsHandler]_vars

\* a REPORT that had assembled the blocks of one calendar's events when the
\* read of the next calendar's events failed, and has returned the error
C18_Witness ==
  /\ task.op = "caldav_report"
  /\ task.pc = "done"
  /\ ReadFailed
  /\ task.responses # <<>>
  /\ task.reads = 3
  /\ last.op = "caldav_report"
  /\ last.resp.status = 500

-----------------------------------------------------------------------------
\* the positions at which a CRLF starts in a text
CrlfAt(text) == {i \in 1..(Len(text) - 1) : text[i] = "\r" /\ text[i + 1] = "\n"}

\* the position of the k-th CRLF of a text
CrlfNo(text, k) ==
  CHOOSE i \in CrlfAt(text) : Cardinality({j \in CrlfAt(text) : j < i}) = k - 1

\* the k-th CRLF-terminated line of a text, without its CRLF
LineNo(text, k) ==
  SubSeq(text, IF k = 1 THEN 1 ELSE CrlfNo(text, k - 1) + 2, CrlfNo(text, k) - 1)

\* a text YYYYMMDDTHHMMSSZ that names the instant dt
IsUtcStampOf(stamp, dt) ==
  /\ Len(stamp) = 16
  /\ IsDigits(SubSeq(stamp, 1, 8))
  /\ stamp[9] = "T"
  /\ IsDigits(SubSeq(stamp, 10, 15))
  /\ stamp[16] = "Z"
  /\ <<NumVal(SubSeq(stamp, 1, 4)), NumVal(SubSeq(stamp, 5, 6)), NumVal(SubSeq(stamp, 7, 8)),
       NumVal(SubSeq(stamp, 10, 11)), NumVal(SubSeq(stamp, 12, 13)),
       NumVal(SubSeq(stamp, 14, 15))>> = dt

\* a line `name:value`
IsProperty(line, name) == Len(line) >= 2 /\ line[1] = name /\ line[2] = ":"

\* C19: the encoded VEVENT is exactly the eight lines BEGIN:VEVENT, UID,
\* SUMMARY, DESCRIPTION, LOCATION, DTSTART, DTEND, END:VEVENT in this order,
\* each ended by CRLF; DESCRIPTION and LOCATION are there with an empty
\* value when the event has none; DTSTART and DTEND are the UTC date-time
\* YYYYMMDDTHHMMSSZ of start and end whatever the all-day flag is.
C19_EncodedLayout ==
  codec.op = "to_ical_string"
    => /\ Cardinality(CrlfAt(codec.text)) = 8
       /\ CrlfNo(codec.text, 8) = Len(codec.text) - 1
       /\ LineNo(codec.text, 1) = <<"BEGIN", ":", "VEVENT">>
       /\ LineNo(codec.text, 2) = <<"UID", ":", codec.event[1].id>>
       /\ IsProperty(LineNo(codec.text, 3), "SUMMARY")
       /\ IsProperty(LineNo(codec.text, 4), "DESCRIPTION")
       /\ IsProperty(LineNo(codec.text, 5), "LOCATION")
       /\ codec.event[1].description = None => LineNo(codec.text, 4) = <<"DESCRIPTION", ":">>
       /\ codec.event[1].description # None => Len(LineNo(codec.text, 4)) > 2
       /\ codec.event[1].location = None => LineNo(codec.text, 5) = <<"LOCATION", ":">>
       /\ codec.event[1].location # None => Len(LineNo(codec.text, 5)) > 2
       /\ IsProperty(LineNo(codec.text, 6), "DTSTART")
       /\ IsUtcStampOf(SubSeq(LineNo(codec.text, 6), 3, Len(LineNo(codec.text, 6))),
                       codec.event[1].start_time)
       /\ IsProperty(LineNo(codec.text, 7), "DTEND")
       /\ IsUtcStampOf(SubSeq(LineNo(codec.text, 7), 3, Len(LineNo(codec.text, 7))),
                       codec.event[1].end_time)
       /\ LineNo(codec.text, 8) = <<"END", ":", "VEVENT">>

\* an all-day event without description whose title holds a newline has
\* been encoded
C19_Witness ==
  /\ codec.op = "to_ical_string"
  /\ codec.event[1].is_all_day
  /\ codec.event[1].description = None
  /\ \E i \in 1..Len(codec.event[1].title) : codec.event[1].title[i] = "\n"

-----------------------------------------------------------------------------
\* what one character of a text becomes in an iCalendar value
EscapedChar(c) ==
  CASE c = "\\" -> <<"\\", "\\">>
    [] c = ";" -> <<"\\", ";">>
    [] c = "," -> <<"\\", ",">>
    [] c = "\n" -> <<"\\", "n">>
    [] OTHER -> <<c>>

\* C20: escape_ical_text turns \ into \\, ; into \;, , into \, and a
\* newline into \n; every character of the original is escaped exactly
\* once and every other character is left as it is.
C20_EscapeOnce ==
  codec.op = "escape_ical_text"
    => /\ codec.result[1]
            = Concat([i \in 1..Len(codec.text) |-> EscapedChar(codec.text[i])])
       /\ Len(codec.result[1])
            = Len(codec.text)
                + Cardinality({i \in 1..Len(codec.text) :
                                 codec.text[i] \in {"\\", ";", ",", "\n"}})

\* a text with a backslash followed by a semicolon has been escaped
C20_Witness ==
  /\ codec.op = "escape_ical_text"
  /\ codec.text = <<"\\", ";">>
  /\ codec.result[1] = <<"\\", "\\", "\\", ";">>

-----------------------------------------------------------------------------
\* the read operations of the CalDAV surface
ReadOps == {"caldav_discovery", "caldav_propfind", "caldav_report", "caldav_get"}

\* the response to the request recorded in `last`, made again in the state
\* its handler has left
ReadAgain ==
  IntoResponse(CASE last.op = "caldav_discovery" -> caldav_discovery
                 [] last.op = "caldav_propfind" -> caldav_propfind(Principal)
                 [] last.op = "caldav_report" -> caldav_report(Principal, last.body)
                 [] last.op = "caldav_get" -> caldav_get(Principal, last.path))

-----------------------------------------------------------------------------
\* the checks of a PUT in the order the handler is to make them: the path
\* has its three segments, the calendar segment is a UUID, the calendar is
\* stored, the principal owns it, the body decodes
PutChecks(user_id, path, body) ==
  LET parts == PathParts(path)
      id == IF SegmentCount(path) >= 3 THEN Uuid_parse_str(parts[2]) ELSE None
      stored == id # None /\ id[1] \in Ids(calendars)
  IN <<SegmentCount(path) >= 3,
       id # None,
       stored,
       stored /\ CalendarOf(id[1]).user_id = user_id,
       parse_icalendar(body).kind = "Ok">>

\* the error of the first check of a PUT that fails, "Ok" when none does
PutVerdict(checks) ==
  CASE ~checks[1] -> "ValidationError"
    [] checks[1] /\ ~checks[2] -> "UuidError"
    [] checks[2] /\ ~checks[3] -> "NotFoundError"
    [] checks[3] /\ ~checks[4] -> "AuthenticationError"
    [] checks[4] /\ ~checks[5] -> "ValidationError"
    [] OTHER -> "Ok"

\* C23: a PUT checks the path, the calendar id, the calendar's existence,
\* its ownership and the body in this order and answers with the error of
\* the first check that fails; it stores an event only when all five pass,
\* so a body that does not decode gets a validation error and no event,
\* and a principal who does not own the calendar gets the authorization
\* error whatever the body.
C23_PutCheckOrder ==
  [][last'.op = "caldav_put" =>
       LET verdict == PutVerdict(PutChecks(last'.user[1], last'.path, last'.body))
       IN /\ last'.kind = verdict
          /\ verdict # "Ok" => events' = events
          /\ verdict = "Ok" => Len(events') = Len(events) + 1]_vars

-----------------------------------------------------------------------------
\* C24: a GET of /calendars/{C}/{E}.ics answers with the content of event E
\* only if E belongs to calendar C; so no principal gets an event of a
\* calendar that is neither public nor their own by naming another
\* calendar in the path.
C24_EventOfNamedCalendar ==
  last.op = "caldav_get" /\ last.kind = "Ok" =>
    \A i \in 1..Len(events) :
      last.resp.etag = QuotedId(events[i].id) =>
        /\ <<events[i].calendar_id>> = PathParts(last.path)[2]
        /\ \/ CalendarOf(events[i].calendar_id).user_id = Principal
           \/ CalendarOf(events[i].calendar_id).is_public

-----------------------------------------------------------------------------
\* the request carries, as a Bearer header or in the auth_token cookie, an
\* unexpired token the server issued for user u
CarriesTokenOf(u, authorization, cookie) ==
  \/ /\ authorization # None
     /\ authorization[1] = <<"Bearer ">> \o TokenFor(u)
  \/ /\ authorization = None
     /\ cookie # None
     /\ \E i \in 1..Len(cookie[1]) :
          /\ cookie[1][i] = "auth_token="
          /\ SubSeq(cookie[1], i + 1, Len(cookie[1])) = TokenFor(u)

\* the middleware passed the request on to the router
Forwarded == last.op = "http" /\ last.kind # "Middleware"

\* C26: whenever auth_middleware passes on a request to a path that
\* requires authentication, the request carries the id of a principal
\* taken from a verified token; a request whose credentials were not
\* verified is never passed on.
C26_ForwardedIsVerified ==
  (Forwarded /\ auth_required(last.path)) =>
    \E a \in Accounts :
      /\ last.user = Some(a.id)
      /\ CarriesTokenOf(a.id, last.authorization, last.cookie)

-----------------------------------------------------------------------------
\* the REST endpoints that return one stored row
RowEndpoints == {"get_user_by_id", "get_calendar_by_id", "get_event_by_id"}

\* the user whose private data the row returned for the request is: the
\* user itself, the owner of a calendar that is not public, the owner of
\* the non-public calendar of an event; none for the rows of a public
\* calendar
PrivateTo(handler, id) ==
  CASE handler = "get_user_by_id" -> {id}
    [] handler = "get_calendar_by_id" ->
         {c.user_id : c \in {r \in Rows(calendars) : r.id = id /\ ~r.is_public}}
    [] handler = "get_event_by_id" ->
         {c.user_id : c \in {r \in Rows(calendars) :
                               /\ ~r.is_public
                               /\ \E e \in Rows(events) : e.id = id /\ e.calendar_id = r.id}}

\* C25: the REST endpoints /api/users/{id}, /api/calendars/{id} and
\* /api/events/{id} return a user record, or a calendar or event of a
\* calendar that is not public, only to a requester who carries a verified
\* token and is that user, resp. owns that calendar; a request without a
\* verified principal obtains none of them.
C25_PrivateRowsToOwnerOnly ==
  (/\ last.op = "http"
   /\ last.handler \in RowEndpoints
   /\ last.resp.status = 200) =>
    \A owner \in PrivateTo(last.handler, Segments(last.path)[3][1]) :
      CarriesTokenOf(owner, last.authorization, last.cookie)

-----------------------------------------------------------------------------
(* The REST and web handlers of shares, and delete_calendar one statement  *)
(* at a time.                                                              *)

ShareIds == {ShareUuid(n) : n \in 1..MaxShares}

\* the share drafts of the requests
NewShares == {[shared_with_user_id |-> "u2"]}

CreateShare ==
  \E u \in Users, c \in CalIds, ns \in NewShares :
    /\ last = Idle
    /\ nextShare <= MaxShares
    /\ LET out == rest_create_share(u, c, ns)
       IN /\ shares' = out.shares
          /\ nextShare' = IF Len(out.shares) > Len(shares) THEN nextShare + 1 ELSE nextShare
          /\ last' = Handled("create_share", u, <<c>>, <<>>, out.res)
    /\ UNCHANGED <<calendars, events, nextCal, nextEv, deleted, codec, task, procs>>

\* DELETE /api/auth/shares/{id}
DeleteShare ==
  \E u \in Users, id \in ShareIds :
    /\ last = Idle
    /\ LET out == rest_delete_share(u, id)
       IN /\ shares' = out.shares
          /\ last' = Handled("delete_share", u, <<id>>, <<>>, out.res)
    /\ UNCHANGED <<calendars, events, nextCal, nextEv, deleted, codec, task, nextShare, procs>>

\* POST /web/shares/{id}/delete
DeleteShareWeb ==
  \E u \in Users, id \in ShareIds :
    /\ last = Idle
    /\ LET out == delete_share_handler(u, id)
       IN /\ shares' = out.shares
          /\ last' = Handled("delete_share_handler", u, <<id>>, <<>>, out.res)
    /\ UNCHANGED <<calendars, events, nextCal, nextEv, deleted, codec, task, nextShare, procs>>

\* handlers::delete_calendar between two statements of
\* CalendarService::delete_calendar: pc names the DELETE that is next
DeleteTask(user_id, calendar_id, pc) ==
  [op |-> "delete_calendar", user |-> user_id, id |-> calendar_id, pc |-> pc]

\* handlers::delete_calendar up to the call of service.delete_calendar
BeginDeleteCalendar ==
  \E u \in Users, c \in CalIds :
    /\ last = Idle
    /\ task = NoTask
    /\ LET calendar == get_calendar_by_id(c)
       IN IF calendar = None
          THEN /\ last' = Handled("delete_calendar", u, <<c>>, <<>>,
                                  Err("NotFoundError", "Calendar not found"))
               /\ task' = task
          ELSE IF calendar[1].user_id # u
          THEN /\ last' = Handled("delete_calendar", u, <<c>>, <<>>,
                                  Err("AuthenticationError", "You don't own this calendar"))
               /\ task' = task
          ELSE /\ last' = last
               /\ task' = DeleteTask(u, c, "events")
    /\ UNCHANGED <<calendars, events, nextCal, nextEv, deleted, codec, shares, nextShare, procs>>

\* DELETE FROM events WHERE calendar_id = ?
DeleteEvents ==
  /\ task.op = "delete_calendar"
  /\ task.pc = "events"
  /\ events' = delete_calendar_events(task.id)
  /\ task' = [task EXCEPT !.pc = "shares"]
  /\ UNCHANGED <<calendars, nextCal, nextEv, last, deleted, codec, shares, nextShare, procs>>

\* DELETE FROM shares WHERE calendar_id = ?
DeleteShares ==
  /\ task.op = "delete_calendar"
  /\ task.pc = "shares"
  /\ shares' = delete_calendar_shares(task.id)
  /\ task' = [task EXCEPT !.pc = "calendar"]
  /\ UNCHANGED <<calendars, events, nextCal, nextEv, last, deleted, codec, nextShare, procs>>

\* DELETE FROM calendars WHERE id = ?, Ok(()) and the 204 of the handler
DeleteRow ==
  /\ task.op = "delete_calendar"
  /\ task.pc = "calendar"
  /\ calendars' = delete_calendar_row(task.id)
  /\ last' = Handled("delete_calendar", task.user, <<task.id>>, <<>>, Ok(Response(204)))
  /\ task' = NoTask
  /\ UNCHANGED <<events, nextCal, nextEv, deleted, codec, shares, nextShare, procs>>

\* the statement that is next fails: `?` returns the error, the statements
\* after it do not run
DeleteFails ==
  /\ task.op = "delete_calendar"
  /\ last' = Handled("delete_calendar", task.user, <<task.id>>, <<>>,
                     Err("DatabaseError", task.pc))
  /\ task' = NoTask
  /\ UNCHANGED <<calendars, events, nextCal, nextEv, deleted, codec, shares, nextShare, procs>>

\* the calendars of these requests are private ones: is_public plays no
\* part in the handlers of shares and in delete_calendar
NextRest ==
  \/ (task = NoTask /\ CreateCalendar /\ ~calendars'[Len(calendars')].is_public)
  \/ (task = NoTask /\ CreateEvent)
  \/ (task = NoTask /\ CreateShare)
  \/ (task = NoTask /\ DeleteShare)
  \/ (task = NoTask /\ DeleteShareWeb)
  \/ Reply
  \/ BeginDeleteCalendar
  \/ DeleteEvents
  \/ DeleteShares
  \/ DeleteRow
  \/ DeleteFails

SpecRest == Init /\ [][NextRest]_vars

-----------------------------------------------------------------------------
\* the delete-share requests: the REST handler and the web form
DeleteShareOps == {"delete_share", "delete_share_handler"}

\* principal p owns the calendar of share s
OwnsShare(p, s) ==
  \E c \in Rows(calendars) : c.id = s.calendar_id /\ c.user_id = p

\* C27: a delete-share request by principal P, through the REST route or
\* the web form, removes share S only if P owns the calendar S belongs to;
\* a request by anyone else fails and S stays stored.
C27_OwnerDeletesShare ==
  [][last'.op \in DeleteShareOps =>
       \A s \in Rows(shares) :
         (s.id = last'.path[1] /\ ~OwnsShare(last'.user[1], s)) =>
           /\ s \in Rows(shares')
           /\ last'.kind # "Ok"]_vars

-----------------------------------------------------------------------------
\* the rows of a table that belong to calendar c, resp. to the others
OfCalendar(table, c) == SelectSeq(table, LAMBDA r : r.calendar_id = c)
NotOfCalendar(table, c) == SelectSeq(table, LAMBDA r : r.calendar_id # c)

\* delete_calendar has answered for calendar last.path[1]
DeleteAnswered(kind) == last.op = "delete_calendar" /\ last.kind = kind

\* a statement of delete_calendar touches no calendar but its own, and no
\* event or share of another calendar
DeleteKeepsOthers ==
  task.op = "delete_calendar" =>
    /\ SelectSeq(calendars', LAMBDA r : r.id # task.id)
         = SelectSeq(calendars, LAMBDA r : r.id # task.id)
    /\ NotOfCalendar(events', task.id) = NotOfCalendar(events, task.id)
    /\ NotOfCalendar(shares', task.id) = NotOfCalendar(shares, task.id)

\* the statements run in the order events, shares, calendar
DeleteInOrder ==
  task.op = "delete_calendar" =>
    /\ shares' # shares => OfCalendar(events, task.id) = <<>>
    /\ calendars' # calendars =>
         OfCalendar(events, task.id) = <<>> /\ OfCalendar(shares, task.id) = <<>>

\* C29: when delete_calendar(C) has succeeded and nothing else wrote in
\* between, calendar C, its events and its shares are gone and the
\* calendars, events and shares of other calendars are as they were; the
\* three deletes run in the order events, shares, calendar, so when one
\* of them fails the calendar row is still stored.
C29_DeleteCalendar ==
  /\ [](DeleteAnswered("Ok") =>
          /\ last.path[1] \notin Ids(calendars)
          /\ OfCalendar(events, last.path[1]) = <<>>
          /\ OfCalendar(shares, last.path[1]) = <<>>)
  /\ [](DeleteAnswered("DatabaseError") => last.path[1] \in Ids(calendars))
  /\ [][DeleteKeepsOthers /\ DeleteInOrder]_vars

\* a calendar holding an event has been deleted, and an event and a share
\* of another calendar are still stored
C29_Witness ==
  /\ DeleteAnswered("Ok")
  /\ Len(events) >= 1
  /\ nextEv - 1 > Len(events)
  /\ Len(shares) >= 1

-----------------------------------------------------------------------------
(* update_event: the service, the REST handler and the web edit form.      *)

\* the columns update_event sets, in the order of its statements
UpdateFields ==
  <<"title", "description", "location", "start_time", "end_time", "is_all_day">>

\* the value a bound parameter stores: description and location are
\* nullable columns, read back as Option
Stored(field, value) ==
  IF field \in {"description", "location"} THEN Some(value) ELSE value

\* the UPDATE writing the value into every row, its WHERE clause left out
SetField_NoWhere(table, id, field, value) ==
  [i \in 1..Len(table) |-> [table[i] EXCEPT ![field] = Stored(field, value)]]

\* UPDATE events SET field = ?, updated_at = ? WHERE id = ?
SetField(table, id, field, value) ==
  [i \in 1..Len(table) |->
     IF table[i].id = id THEN [table[i] EXCEPT ![field] = Stored(field, value)]
     ELSE table[i]]

\* update_event: the statements from the k-th on; statement failAt fails
\* and `?` returns, the statements after it do not run
RECURSIVE ApplyUpdates(_, _, _, _, _)
ApplyUpdates(table, id, updates, k, failAt) ==
  IF k > Len(UpdateFields) THEN [events |-> table, failed |-> FALSE]
  ELSE IF updates[UpdateFields[k]] = None
  THEN ApplyUpdates(table, id, updates, k + 1, failAt)
  ELSE IF failAt = k THEN [events |-> table, failed |-> TRUE]
  ELSE ApplyUpdates(SetField(table, id, UpdateFields[k], updates[UpdateFields[k]][1]),
                    id, updates, k + 1, failAt)

\* update_event: the closing get_event_by_id(id), on the table as updated
Reloaded(table, id, failed) ==
  IF failed THEN Err("DatabaseError", "")
  ELSE LET event == fetch_optional(SelectSeq(table, LAMBDA e : e.id = id))
       IN IF event = None THEN Err("NotFoundError", "Event not found")
          ELSE Ok(event[1])

\* CalendarService::update_event: the result and the events table after it
\* (failAt 0: no statement fails; 7: the closing SELECT fails)
update_event(id, updates, failAt) ==
  LET done == ApplyUpdates(events, id, updates, 1, failAt)
  IN [res |-> Reloaded(done.events, id, done.failed \/ failAt = 7),
      events |-> done.events]

\* the handler's answer to the outcome of the service call
Updated(out, resp) ==
  [res |-> IF out.res.kind = "Ok" THEN Ok(resp) ELSE Err(out.res.kind, out.res.msg),
   events |-> out.events]

\* handlers::update_event
rest_update_event(user_id, event_id, updates, failAt) ==
  LET event == get_event_by_id(event_id)
  IN IF event = None
     THEN [res |-> Err("NotFoundError", "Event not found"), events |-> events]
     ELSE LET calendar == get_calendar_by_id(event[1].calendar_id)
          IN IF calendar = None
             THEN [res |-> Err("NotFoundError", "Calendar not found"), events |-> events]
             ELSE IF calendar[1].user_id # user_id
             THEN [res |-> Err("AuthenticationError",
                               "You don't have access to this event"),
                   events |-> events]
             ELSE Updated(update_event(event_id, updates, failAt),
                          [Response(200) EXCEPT !.content_type = "application/json",
                                                !.body = <<event_id>>])

\* NaiveDateTime::parse_from_str(s, "%Y-%m-%dT%H:%M") and and_utc(), for
\* the zero-padded text a datetime-local field sends: Some(instant) or None
ParseFormDateTime(s) ==
  IF /\ Len(s) = 16
     /\ s[5] = "-" /\ s[8] = "-" /\ s[11] = "T" /\ s[14] = ":"
     /\ ParseDate(SubSeq(s, 1, 4) \o SubSeq(s, 6, 7) \o SubSeq(s, 9, 10)) # None
     /\ IsDigits(SubSeq(s, 12, 13) \o SubSeq(s, 15, 16))
     /\ NumVal(SubSeq(s, 12, 13)) \in 0..23
     /\ NumVal(SubSeq(s, 15, 16)) \in 0..59
  THEN Some(<<NumVal(SubSeq(s, 1, 4)), NumVal(SubSeq(s, 6, 7)), NumVal(SubSeq(s, 9, 10)),
              NumVal(SubSeq(s, 12, 13)), NumVal(SubSeq(s, 15, 16)), 0>>)
  ELSE None

\* handlers::web::update_event_handler: the UpdateEvent built from the form;
\* the form's calendar_id is not part of it
FormUpdate(form, start_time, end_time) ==
  [title |-> Some(form.title), description |-> form.description,
   location |-> form.location, start_time |-> Some(start_time),
   end_time |-> Some(end_time),
   is_all_day |-> Some(form.is_all_day = Some("on"))]

\* handlers::web::update_event_handler: the part after the ownership check
UpdateFromForm(event_id, form, failAt) ==
  LET start_time == ParseFormDateTime(form.start_time)
      end_time == ParseFormDateTime(form.end_time)
  IN IF start_time = None
     THEN [res |-> Err("ValidationError", "Invalid start time format"), events |-> events]
     ELSE IF end_time = None
     THEN [res |-> Err("ValidationError", "Invalid end time format"), events |-> events]
     ELSE Updated(update_event(event_id, FormUpdate(form, start_time[1], end_time[1]),
                               failAt),
                  Redirect(<<"/", "web", "/", "calendars", "/", form.calendar_id,
                             "?message=Event updated&flash_type=success">>))

\* handlers::web::update_event_handler
update_event_handler(user, event_id, form, failAt) ==
  LET event == get_event_by_id(event_id)
  IN IF event = None
     THEN [res |-> Err("NotFoundError", "Event not found"), events |-> events]
     ELSE LET calendar == get_calendar_by_id(event[1].calendar_id)
          IN IF calendar = None
             THEN [res |-> Err("NotFoundError", "Calendar not found"), events |-> events]
             ELSE IF calendar[1].user_id # user
             THEN [res |-> Err("AuthenticationError", "Access denied"), events |-> events]
             ELSE UpdateFromForm(event_id, form, failAt)

\* an UpdateEvent without any value
NoUpdate ==
  [title |-> None, description |-> None, location |-> None,
   start_time |-> None, end_time |-> None, is_all_day |-> None]

\* the UpdateEvent bodies of the requests
Updates ==
  {NoUpdate,
   [NoUpdate EXCEPT !.title = Some(<<"T">>)],
   [NoUpdate EXCEPT !.description = Some(<<"d">>), !.is_all_day = Some(TRUE)],
   [NoUpdate EXCEPT !.location = Some(<<"R", "1">>),
                    !.end_time = Some(<<2024, 3, 1, 10, 0, 0>>)]}

\* the edit forms: one that names another calendar than the event's, one
\* whose start time is no date-time
EventForms ==
  {[title |-> <<"T">>, calendar_id |-> CalUuid(2),
    start_time |-> <<"2", "0", "2", "4", "-", "0", "3", "-", "0", "2", "T",
                     "0", "8", ":", "3", "0">>,
    end_time |-> <<"2", "0", "2", "4", "-", "0", "3", "-", "0", "2", "T",
                   "0", "9", ":", "0", "0">>,
    is_all_day |-> Some("on"), location |-> None, description |-> Some(<<"d">>)],
   [title |-> <<"T">>, calendar_id |-> CalUuid(1),
    start_time |-> <<"s", "o", "o", "n">>,
    end_time |-> <<"2", "0", "2", "4", "-", "0", "3", "-", "0", "2", "T",
                   "0", "9", ":", "0", "0">>,
    is_all_day |-> None, location |-> None, description |-> None]}

\* the event ids of the update requests: a stored event and an id that was
\* never given out
UpdateIds == {EvUuid(1), EvUuid(3)}

\* the statement of update_event that fails: none, one of the six UPDATEs,
\* the closing SELECT
FailPoints == 0..7

\* the store the update requests meet: u1 and u2 have created a private
\* calendar each, c1 and c2, and an event in it, e1 and e2
InitUpdate ==
  /\ calendars = <<[id |-> CalUuid(1), user_id |-> "u1",
                    name |-> <<"R", "&", "D">>, is_public |-> FALSE],
                   [id |-> CalUuid(2), user_id |-> "u2",
                    name |-> <<"R", "&", "D">>, is_public |-> FALSE]>>
  /\ events = <<[id |-> EvUuid(1), calendar_id |-> CalUuid(1),
                 title |-> <<"a", ";", "<", "b">>, description |-> None,
                 location |-> Some(<<"H", "Q">>),
                 start_time |-> <<2024, 3, 1, 9, 0, 0>>,
                 end_time |-> <<2024, 3, 1, 9, 15, 0>>, is_all_day |-> FALSE],
                [id |-> EvUuid(2), calendar_id |-> CalUuid(2),
                 title |-> <<"a", ";", "<", "b">>, description |-> None,
                 location |-> Some(<<"H", "Q">>),
                 start_time |-> <<2024, 3, 1, 9, 0, 0>>,
                 end_time |-> <<2024, 3, 1, 9, 15, 0>>, is_all_day |-> FALSE]>>
  /\ nextCal = 3
  /\ nextEv = 3
  /\ last = Idle
  /\ deleted = {}
  /\ codec = NoCodec
  /\ task = NoTask
  /\ shares = <<>>
  /\ nextShare = 1
  /\ procs = NoProcs

\* CalendarService::update_event called on its own
UpdateEventService ==
  \E id \in UpdateIds, updates \in Updates, failAt \in FailPoints :
    /\ last = Idle
    /\ LET out == update_event(id, updates, failAt)
       IN /\ events' = out.events
          /\ last' = Handled("CalendarService::update_event", "", <<id>>, updates,
                             Updated(out, Response(0)).res)
    /\ UNCHANGED <<calendars, nextCal, nextEv, deleted, codec, task, shares, nextShare, procs>>

\* PUT /api/auth/events/{id}
UpdateEvent ==
  \E u \in Users, id \in UpdateIds, updates \in Updates, failAt \in FailPoints :
    /\ last = Idle
    /\ LET out == rest_update_event(u, id, updates, failAt)
       IN /\ events' = out.events
          /\ last' = Handled("update_event", u, <<id>>, updates, out.res)
    /\ UNCHANGED <<calendars, nextCal, nextEv, deleted, codec, task, shares, nextShare, procs>>

\* POST /web/events/{id}/edit
UpdateEventWeb ==
  \E u \in Users, id \in UpdateIds, form \in EventForms, failAt \in FailPoints :
    /\ last = Idle
    /\ LET out == update_event_handler(u, id, form, failAt)
       IN /\ events' = out.events
          /\ last' = Handled("update_event_handler", u, <<id>>, form, out.res)
    /\ UNCHANGED <<calendars, nextCal, nextEv, deleted, codec, task, shares, nextShare, procs>>

NextUpdate ==
  \/ Reply
  \/ UpdateEventService
  \/ UpdateEvent
  \/ UpdateEventWeb

SpecUpdate == InitUpdate /\ [][NextUpdate]_vars

-----------------------------------------------------------------------------
\* the update requests: the service, the REST handler, the web edit form
UpdateOps == {"CalendarService::update_event", "update_event", "update_event_handler"}

\* the UpdateEvent a request asks for: its body, resp. what the edit form
\* amounts to (nothing when its times are no date-times)
Requested(op, body) ==
  IF op # "update_event_handler" THEN body
  ELSE IF ParseFormDateTime(body.start_time) = None
          \/ ParseFormDateTime(body.end_time) = None
  THEN NoUpdate
  ELSE [title |-> Some(body.title), description |-> body.description,
        location |-> body.location,
        start_time |-> ParseFormDateTime(body.start_time),
        end_time |-> ParseFormDateTime(body.end_time),
        is_all_day |-> Some(body.is_all_day = Some("on"))]

\* the column value an update value of a field stands for
ColumnValue(field, value) ==
  IF field \in {"description", "location"} THEN value ELSE value[1]

-----------------------------------------------------------------------------
(* Requests served at the same time.  Each request is a task; a task is    *)
(* suspended at its calls of the service, so a step is one service call    *)
(* with the handler's own code up to the next call.                        *)

\* the tasks that can be in flight together
Clients == {1, 2}

\* no request on this connection
Free == [op |-> "none"]

\* a request that has arrived: the handler is at its first service call
Started(op, user, path, body, pc) ==
  [op |-> op, user |-> user, path |-> path, body |-> body, pc |-> pc,
   loaded |-> <<>>, result |-> None]

\* the requests: PUT of a new event into c1, POST /api/auth/events for c1,
\* DELETE /api/auth/calendars/c1, and the CalDAV DELETE of event e1
RaceRequests(op) ==
  CASE op = "caldav_put" ->
         {Started(op, u, EventUrl(CalUuid(1), "x"), BodyStandup, "get_calendar") :
            u \in Users}
    [] op = "create_event" ->
         {Started(op, "u1", <<CalUuid(1)>>, ne, "get_calendar") : ne \in NewEvents}
    [] op = "delete_calendar" ->
         {Started(op, "u1", <<CalUuid(1)>>, <<>>, "get_calendar")}
    [] op = "caldav_delete" ->
         {Started(op, u, EventUrl(CalUuid(1), EvUuid(1)), <<>>, "get_event") :
            u \in Users}

\* the requests in flight that have yet to insert an event
Inserting ==
  {k \in Clients : procs[k].op \in {"caldav_put", "create_event"} /\ procs[k].pc # "done"}

\* the store the requests meet: u1 has created the private calendar c1,
\* event e1 in it and a share of it; u2 has created calendar c2
InitRace ==
  /\ calendars = <<[id |-> CalUuid(1), user_id |-> "u1",
                    name |-> <<"R", "&", "D">>, is_public |-> FALSE],
                   [id |-> CalUuid(2), user_id |-> "u2",
                    name |-> <<"R", "&", "D">>, is_public |-> FALSE]>>
  /\ events = <<[id |-> EvUuid(1), calendar_id |-> CalUuid(1),
                 title |-> <<"a", ";", "<", "b">>, description |-> None,
                 location |-> Some(<<"H", "Q">>),
                 start_time |-> <<2024, 3, 1, 9, 0, 0>>,
                 end_time |-> <<2024, 3, 1, 9, 15, 0>>, is_all_day |-> FALSE]>>
  /\ shares = <<[id |-> ShareUuid(1), calendar_id |-> CalUuid(1), user_id |-> "u1",
                 shared_with_user_id |-> "u2"]>>
  /\ nextCal = 3
  /\ nextEv = 2
  /\ nextShare = 2
  /\ last = Idle
  /\ deleted = {}
  /\ codec = NoCodec
  /\ task = NoTask
  /\ procs = [k \in Clients |-> Free]

\* the task goes on to its next service call
Goto(k, pc, loaded) ==
  procs' = [procs EXCEPT ![k].pc = pc, ![k].loaded = loaded]

\* the handler returns
Finish(k, res) ==
  procs' = [procs EXCEPT ![k].pc = "done", ![k].result = Some(res)]

\* the handler is at service call pc of handler op
At(k, op, pc) == procs[k].op = op /\ procs[k].pc = pc

\* INSERT INTO events: the table takes the row whatever its calendar_id
\* names
InsertEvent(table, row) == Append(table, row)

\* a request arrives
Arrive(k) ==
  \E op \in {"caldav_put", "create_event", "delete_calendar", "caldav_delete"} :
  \E req \in RaceRequests(op) :
    /\ procs[k] = Free
    /\ req.op \in {"caldav_put", "create_event"} =>
         nextEv + Cardinality(Inserting) <= MaxEvents
    /\ procs' = [procs EXCEPT ![k] = req]
    /\ UNCHANGED <<calendars, events, nextCal, nextEv, last, deleted, codec, task, shares, nextShare>>

\* caldav_put up to create_event: the path, the calendar, the owner, the body
PutLoadCalendar(k) ==
  /\ At(k, "caldav_put", "get_calendar")
  /\ LET parts == PathParts(procs[k].path)
         calendar_id == IF Len(parts) < 3 THEN None ELSE Uuid_parse_str(parts[2])
         calendar == IF calendar_id = None THEN None
                     ELSE get_calendar_by_id(calendar_id[1])
         new_event == parse_icalendar(procs[k].body)
     IN IF Len(parts) < 3 THEN Finish(k, Err("ValidationError", "Invalid event path"))
        ELSE IF calendar_id = None THEN Finish(k, Err("UuidError", ""))
        ELSE IF calendar = None THEN Finish(k, Err("NotFoundError", "Calendar not found"))
        ELSE IF NotOwner(calendar[1], procs[k].user)
        THEN Finish(k, Err("AuthenticationError", "You don't own this calendar"))
        ELSE IF new_event.kind # "Ok" THEN Finish(k, Err(new_event.kind, new_event.msg))
        ELSE Goto(k, "create_event",
                  [calendar_id |-> calendar_id[1], new_event |-> new_event.value[1]])
  /\ UNCHANGED <<calendars, events, nextCal, nextEv, last, deleted, codec, task, shares, nextShare>>

\* handlers::auth::create_event up to create_event: the calendar, the owner
CreateLoadCalendar(k) ==
  /\ At(k, "create_event", "get_calendar")
  /\ LET calendar == get_calendar_by_id(procs[k].path[1])
     IN IF calendar = None THEN Finish(k, Err("NotFoundError", "Calendar not found"))
        ELSE IF calendar[1].user_id # procs[k].user
        THEN Finish(k, Err("AuthenticationError", "You don't own this calendar"))
        ELSE Goto(k, "create_event",
                  [calendar_id |-> procs[k].path[1], new_event |-> procs[k].body])
  /\ UNCHANGED <<calendars, events, nextCal, nextEv, last, deleted, codec, task, shares, nextShare>>

\* service.create_event and the response: 201 of the PUT, the JSON of the
\* REST handler
InsertLoaded(k) ==
  /\ procs[k].op \in {"caldav_put", "create_event"}
  /\ procs[k].pc = "create_event"
  /\ LET event == create_event(procs[k].loaded.calendar_id, procs[k].loaded.new_event)
     IN /\ events' = InsertEvent(events, event)
        /\ IF procs[k].op = "caldav_put"
           THEN Finish(k, Ok([Response(201) EXCEPT
                                !.location = EventUrl(event.calendar_id, event.id),
                                !.etag = QuotedId(event.id)]))
           ELSE Finish(k, Ok([Response(200) EXCEPT !.content_type = "application/json",
                                                   !.body = <<event.id>>]))
  /\ nextEv' = nextEv + 1
  /\ UNCHANGED <<calendars, nextCal, last, deleted, codec, task, shares, nextShare>>

\* handlers::delete_calendar up to service.delete_calendar
DeleteLoadCalendar(k) ==
  /\ At(k, "delete_calendar", "get_calendar")
  /\ LET calendar == get_calendar_by_id(procs[k].path[1])
     IN IF calendar = None THEN Finish(k, Err("NotFoundError", "Calendar not found"))
        ELSE IF calendar[1].user_id # procs[k].user
        THEN Finish(k, Err("AuthenticationError", "You don't own this calendar"))
        ELSE Goto(k, "events", <<>>)
  /\ UNCHANGED <<calendars, events, nextCal, nextEv, last, deleted, codec, task, shares, nextShare>>

\* delete_calendar: DELETE FROM events WHERE calendar_id = ?
DeleteItsEvents(k) ==
  /\ At(k, "delete_calendar", "events")
  /\ events' = delete_calendar_events(procs[k].path[1])
  /\ Goto(k, "shares", <<>>)
  /\ UNCHANGED <<calendars, nextCal, nextEv, last, deleted, codec, task, shares, nextShare>>

\* delete_calendar: DELETE FROM shares WHERE calendar_id = ?
DeleteItsShares(k) ==
  /\ At(k, "delete_calendar", "shares")
  /\ shares' = delete_calendar_shares(procs[k].path[1])
  /\ Goto(k, "calendar", <<>>)
  /\ UNCHANGED <<calendars, events, nextCal, nextEv, last, deleted, codec, task, nextShare>>

\* delete_calendar: DELETE FROM calendars WHERE id = ?, and the 204
DeleteItsRow(k) ==
  /\ At(k, "delete_calendar", "calendar")
  /\ calendars' = delete_calendar_row(procs[k].path[1])
  /\ Finish(k, Ok(Response(204)))
  /\ UNCHANGED <<events, nextCal, nextEv, last, deleted, codec, task, shares, nextShare>>

\* caldav_delete up to get_calendar_by_id: the path, the event
DeleteLoadEvent(k) ==
  /\ At(k, "caldav_delete", "get_event")
  /\ LET parts == PathParts(procs[k].path)
         event_id == IF Len(parts) < 3 THEN None
                     ELSE Uuid_parse_str(TrimEndMatches(parts[3], ".ics"))
         event == IF event_id = None THEN None ELSE get_event_by_id(event_id[1])
     IN IF Len(parts) < 3 THEN Finish(k, Err("ValidationError", "Invalid event path"))
        ELSE IF event_id = None THEN Finish(k, Err("UuidError", ""))
        ELSE IF event = None THEN Finish(k, Err("NotFoundError", "Event not found"))
        ELSE Goto(k, "get_calendar", event[1])
  /\ UNCHANGED <<calendars, events, nextCal, nextEv, last, deleted, codec, task, shares, nextShare>>

\* caldav_delete: the calendar of the event, the owner
DeleteCheckOwner(k) ==
  /\ At(k, "caldav_delete", "get_calendar")
  /\ LET calendar == get_calendar_by_id(procs[k].loaded.calendar_id)
     IN IF calendar = None THEN Finish(k, Err("NotFoundError", "Calendar not found"))
        ELSE IF NotEventOwner(calendar[1], procs[k].user)
        THEN Finish(k, Err("AuthenticationError", "You don't have access to this event"))
        ELSE Goto(k, "delete_event", procs[k].loaded)
  /\ UNCHANGED <<calendars, events, nextCal, nextEv, last, deleted, codec, task, shares, nextShare>>

\* caldav_delete: service.delete_event and the 204; the number of rows the
\* DELETE removed is not looked at
DeleteEventRow(k) ==
  /\ At(k, "caldav_delete", "delete_event")
  /\ events' = delete_event(procs[k].loaded.id)
  /\ Finish(k, Ok(Response(204)))
  /\ UNCHANGED <<calendars, nextCal, nextEv, last, deleted, codec, task, shares, nextShare>>

\* the service call the task is at fails: `?` returns the error
CallFails(k) ==
  /\ procs[k].op # "none"
  /\ procs[k].pc # "done"
  /\ Finish(k, Err("DatabaseError", procs[k].pc))
  /\ UNCHANGED <<calendars, events, nextCal, nextEv, last, deleted, codec, task, shares, nextShare>>

\* the response is sent and the task ends
Depart(k) ==
  /\ procs[k].op # "none"
  /\ procs[k].pc = "done"
  /\ procs' = [procs EXCEPT ![k] = Free]
  /\ UNCHANGED <<calendars, events, nextCal, nextEv, last, deleted, codec, task, shares, nextShare>>

NextRace ==
  \E k \in Clients :
    \/ Arrive(k)
    \/ PutLoadCalendar(k)
    \/ CreateLoadCalendar(k)
    \/ InsertLoaded(k)
    \/ DeleteLoadCalendar(k)
    \/ DeleteItsEvents(k)
    \/ DeleteItsShares(k)
    \/ DeleteItsRow(k)
    \/ DeleteLoadEvent(k)
    \/ DeleteCheckOwner(k)
    \/ DeleteEventRow(k)
    \/ CallFails(k)
    \/ Depart(k)

SpecRace == InitRace /\ [][NextRace]_vars

-----------------------------------------------------------------------------
\* C22: in every state the store goes through while requests interleave
\* (a PUT or a create_event next to a delete_calendar, whose three deletes
\* are separate steps), every stored event names exactly one calendar and
\* that calendar is stored.
C22_EventHasCalendar ==
  \A i \in 1..Len(events) :
    Cardinality({j \in 1..Len(calendars) : calendars[j].id = events[i].calendar_id}) = 1

\* task k holds the answer 204 to a DELETE of an event
Answered204(k) ==
  /\ procs[k].op = "caldav_delete"
  /\ procs[k].pc = "done"
  /\ procs[k].result[1].kind = "Ok"

\* the other tasks serve a DELETE of the event task k is to delete
SameDeletes(k) ==
  \A m \in Clients \ {k} :
    procs[m].op = "caldav_delete" /\ procs[m].path = procs[k].path

\* C30: when DELETE requests for the same event interleave, each DELETE
\* answered 204 has removed an event that was stored when its delete
\* statement ran; so at most one of them is answered 204.
C30_OneDeleteSucceeds ==
  [][\A k \in Clients :
       (/\ At(k, "caldav_delete", "delete_event")
        /\ Answered204(k)'
        /\ SameDeletes(k)) =>
         /\ Len(events') = Len(events) - 1
         /\ \A m \in Clients \ {k} : ~Answered204(m)]_vars

====
